---- MODULE Spec2Model ----
(***************************************************************************)
(* FraudLens: the dashboard driver (App), the metrics service              *)
(* (calculateMetrics, calculatePercentile, recordMetricsSnapshot) and the  *)
(* risk scorer / profile statistics it calls.                              *)
(*                                                                         *)
(* Number representation.  Amounts are whole currency units.  Profile      *)
(* statistics (mean, stdDev) are fixed-point tenths, zScore is fixed-point *)
(* hundredths, signatureMatchScore is a percentage (85 stands for 0.85).   *)
(* Response times are fixed-point tenths of a millisecond, because         *)
(* performance.now() differences are fractional.  Rates (detection_rate,   *)
(* precision, ...) are exact fractions [n, d] with d > 0.                  *)
(***************************************************************************)
EXTENDS Integers, Sequences, FiniteSets, TLC

\* ------------------------------------------------------------------------
\* Bounds of the exploration
\* ------------------------------------------------------------------------
\* driver operations explored after the initial state
MaxSteps == 3

\* ------------------------------------------------------------------------
\* Program constants
\* ------------------------------------------------------------------------
\* setTransactions(prev => [newTx, ...prev].slice(0, 50))
TX_CAP == 50
\* [...historyRef.current, newTx.amount].slice(-50)
HISTORY_WINDOW == 50
\* maxHistorySize: number = 1000
maxHistorySize == 1000
\* setInterval(..., 2500)
TICK_MS == 2500
\* fixed-point scale of response times: tenths of a millisecond
RT_SCALE == 10

\* ------------------------------------------------------------------------
\* Arithmetic helpers
\* ------------------------------------------------------------------------
Min(a, b) == IF a < b THEN a ELSE b
Max(a, b) == IF a > b THEN a ELSE b
Abs(a) == IF a < 0 THEN -a ELSE a

\* integer division truncating toward zero (JS number division, then the
\* fixed-point cut)
TruncDiv(a, b) == IF a >= 0 THEN a \div b ELSE -((-a) \div b)

RECURSIVE SumSeq(_)
SumSeq(s) == IF s = <<>> THEN 0 ELSE Head(s) + SumSeq(Tail(s))

RECURSIVE SqrtBetween(_, _, _)
SqrtBetween(lo, hi, v) ==
    IF lo >= hi THEN lo
    ELSE LET mid == (lo + hi + 1) \div 2
         IN  IF mid * mid <= v THEN SqrtBetween(mid, hi, v)
             ELSE SqrtBetween(lo, mid - 1, v)

\* floor of the square root
ISqrt(v) == SqrtBetween(0, Min(v, 40000), v)

\* Array.prototype.slice(0, n)
SliceFirst(s, n) == SubSeq(s, 1, Min(n, Len(s)))
\* Array.prototype.slice(-n)
SliceLast(s, n) == SubSeq(s, Max(1, Len(s) - n + 1), Len(s))

\* ------------------------------------------------------------------------
\* services/simulation: profile statistics and the risk scorer
\* ------------------------------------------------------------------------
\* smallest positive standard deviation of the fixed-point representation
EPSILON == 1

\* mean and sample standard deviation (Bessel-corrected for n > 1, 0 for
\* n = 1), in tenths
calculateStats(history) ==
    LET n == Len(history)
        mean == (10 * SumSeq(history)) \div n
        sq == [i \in 1..n |-> (10 * history[i] - mean) * (10 * history[i] - mean)]
        variance == IF n > 1 THEN SumSeq(sq) \div (n - 1) ELSE 0
    IN  [mean |-> mean, stdDev |-> ISqrt(variance)]

MkProfile(history) ==
    [history |-> history,
     mean |-> calculateStats(history).mean,
     stdDev |-> calculateStats(history).stdDev]

\* zScore = (amount - mean) / max(stdDev, eps), in hundredths
ZScore(profile, amount) ==
    TruncDiv(100 * (10 * amount - profile.mean), Max(profile.stdDev, EPSILON))

RiskLevelMutSwapped(zScore, sig) ==
    IF Abs(zScore) > 150 \/ sig >= 50 THEN "MEDIUM"
    ELSE IF Abs(zScore) > 300 \/ sig >= 85 THEN "CRITICAL"
    ELSE "LOW"

\* the ordered decision table
RiskLevel(zScore, sig) ==
    IF Abs(zScore) > 300 \/ sig >= 85 THEN "CRITICAL"
    ELSE IF Abs(zScore) > 150 \/ sig >= 50 THEN "MEDIUM"
    ELSE "LOW"

\* One call of the scorer.  draw holds the outcome of the random source:
\*   amount, sig, merchant, narrative  (background draw)
\*   k                                 (BEHAVIORAL: standard deviations above mean)
\*   caseIdx                           (SIGNATURE: the knowledge-base entry copied)
generateTransaction(profile, kb, forcedType, draw, id, time) ==
    LET amount == IF forcedType = "BEHAVIORAL"
                  THEN (profile.mean + draw.k * Max(profile.stdDev, EPSILON)) \div 10 + 1
                  ELSE draw.amount
        sig == draw.sig
        z == ZScore(profile, amount)
        case == IF forcedType = "SIGNATURE" THEN kb[draw.caseIdx] ELSE [id |-> "none"]
    IN  [id |-> id,
         timestamp |-> time,
         amount |-> amount,
         merchant |-> IF forcedType = "SIGNATURE" THEN case.merchant ELSE draw.merchant,
         narrative |-> IF forcedType = "SIGNATURE" THEN case.narrative ELSE draw.narrative,
         zScore |-> z,
         signatureMatchScore |-> sig,
         matchedCaseId |-> case.id,
         riskLevel |-> RiskLevel(z, sig),
         status |-> "PENDING"]

\* ------------------------------------------------------------------------
\* services/metrics: the snapshot log
\* ------------------------------------------------------------------------
recordMetricsSnapshotMutNoTrim(history, responseTime, isFraud, time) ==
    LET snapshot == [timestamp |-> time, responseTime |-> responseTime, isFraud |-> isFraud]
    IN  [ret |-> Append(history, snapshot), history |-> history]

\* ret: the returned array; history: the argument array after the call
recordMetricsSnapshot(history, responseTime, isFraud, time) ==
    LET snapshot == [timestamp |-> time, responseTime |-> responseTime, isFraud |-> isFraud]
        updated == Append(history, snapshot)
    IN  [ret |-> IF Len(updated) > maxHistorySize
                 THEN SliceLast(updated, maxHistorySize)
                 ELSE updated,
         history |-> history]

\* ------------------------------------------------------------------------
\* services/metrics: calculateMetrics
\* ------------------------------------------------------------------------
\* a rate num/den as an exact fraction; the code yields 0 when den is 0
Frac(num, den) == IF den > 0 THEN [n |-> num, d |-> den] ELSE [n |-> 0, d |-> 1]
\* f > pn/pd
FracGt(f, pn, pd) == f.n * pd > pn * f.d
\* Math.max(0, Math.min(1, x))
Clamp01(f) ==
    IF f.n < 0 THEN [n |-> 0, d |-> 1]
    ELSE IF f.n > f.d THEN [n |-> 1, d |-> 1]
    ELSE f

\* Math.round(num / den) for den > 0: the nearest integer, halves upward
RoundDiv(num, den) == (2 * num + den) \div (2 * den)

RECURSIVE InsertAsc(_, _)
InsertAsc(x, s) ==
    IF s = <<>> THEN <<x>>
    ELSE IF x < Head(s) THEN <<x>> \o s
    ELSE <<Head(s)>> \o InsertAsc(x, Tail(s))

\* [...values].sort((a, b) => a - b)
RECURSIVE SortAsc(_)
SortAsc(s) == IF s = <<>> THEN <<>> ELSE InsertAsc(Head(s), SortAsc(Tail(s)))

RECURSIVE MaxSeq(_)
MaxSeq(s) == IF Len(s) = 1 THEN s[1] ELSE Max(Head(s), MaxSeq(Tail(s)))

\* Math.ceil(n * percentile) for percentile = pct / 100
CeilPct(n, pct) == (n * pct + 99) \div 100

calculatePercentileMutNoRound(values, pct) ==
    IF Len(values) = 0 THEN [ret |-> 0, values |-> values]
    ELSE LET sorted == SortAsc(values)
             index == CeilPct(Len(sorted), pct) - 1
         IN  [ret |-> sorted[Max(0, index) + 1] \div RT_SCALE, values |-> values]

\* values in tenths of a millisecond, pct in percent; ret in whole
\* milliseconds; values: the argument array after the call
calculatePercentile(values, pct) ==
    IF Len(values) = 0 THEN [ret |-> 0, values |-> values]
    ELSE LET sorted == SortAsc(values)
             index == CeilPct(Len(sorted), pct) - 1
         IN  [ret |-> RoundDiv(sorted[Max(0, index) + 1], RT_SCALE), values |-> values]

\* transactions per second, in hundredths (toFixed(2))
calculateThroughput(metricsHistory) ==
    IF Len(metricsHistory) < 2 THEN 0
    ELSE LET sorted == SortAsc([i \in 1..Len(metricsHistory) |-> metricsHistory[i].timestamp])
             timespanMs == sorted[Len(sorted)] - sorted[1]
         IN  IF timespanMs = 0 THEN 0
             ELSE RoundDiv(100 * 1000 * Len(metricsHistory), timespanMs)

CountSeverity(alerts, sev) == Len(SelectSeq(alerts, LAMBDA a : a.severity = sev))

determineSystemHealthMutWarningFirst(detectionRate, falsePositiveRate, avgResponseTime, alerts) ==
    IF \/ Len(alerts) > 10
       \/ FracGt(falsePositiveRate, 15, 100)
       \/ avgResponseTime > 2000
       \/ FracGt(detectionRate, 3, 10)
    THEN "WARNING"
    ELSE IF \/ CountSeverity(alerts, "CRITICAL") > 5
            \/ FracGt(falsePositiveRate, 3, 10)
            \/ avgResponseTime > 5000
            \/ FracGt(detectionRate, 5, 10)
    THEN "CRITICAL"
    ELSE "NORMAL"

determineSystemHealth(detectionRate, falsePositiveRate, avgResponseTime, alerts) ==
    IF \/ CountSeverity(alerts, "CRITICAL") > 5
       \/ FracGt(falsePositiveRate, 3, 10)
       \/ avgResponseTime > 5000
       \/ FracGt(detectionRate, 5, 10)
    THEN "CRITICAL"
    ELSE IF \/ Len(alerts) > 10
            \/ FracGt(falsePositiveRate, 15, 100)
            \/ avgResponseTime > 2000
            \/ FracGt(detectionRate, 3, 10)
    THEN "WARNING"
    ELSE "NORMAL"

fraudCasesMutRecent(transactions) ==
    SelectSeq(SliceFirst(transactions, 2),
              LAMBDA t : t.riskLevel = "CRITICAL" \/ t.status = "BLOCKED")

fraudCasesMutCriticalOnly(transactions) ==
    SelectSeq(transactions, LAMBDA t : t.riskLevel = "CRITICAL")

fraudCases(transactions) ==
    SelectSeq(transactions, LAMBDA t : t.riskLevel = "CRITICAL" \/ t.status = "BLOCKED")

approvedCases(transactions) ==
    SelectSeq(transactions, LAMBDA t : t.status = "ALLOWED")

pendingCases(transactions) ==
    SelectSeq(transactions, LAMBDA t : t.status = "PENDING" \/ t.status = "ANALYZING")

detectionRateMutUnguarded(transactions) ==
    [n |-> Len(fraudCases(transactions)), d |-> Len(transactions)]

\* transactions.length > 0 ? fraudCases.length / transactions.length : 0
detectionRate(transactions) ==
    IF Len(transactions) > 0
    THEN [n |-> Len(fraudCases(transactions)), d |-> Len(transactions)]
    ELSE [n |-> 0, d |-> 1]

falsePositivesMutAllApproved(transactions) == Len(approvedCases(transactions))

truePositives(transactions) ==
    Len(SelectSeq(fraudCases(transactions), LAMBDA t : t.status = "BLOCKED"))
falsePositives(transactions) ==
    Len(SelectSeq(fraudCases(transactions), LAMBDA t : t.status = "ALLOWED"))
falseNegativesMutNotLow(transactions) ==
    Len(SelectSeq(approvedCases(transactions), LAMBDA t : t.riskLevel # "LOW"))

falseNegatives(transactions) ==
    Len(SelectSeq(approvedCases(transactions), LAMBDA t : t.riskLevel = "CRITICAL"))
trueNegatives(transactions) ==
    Len(SelectSeq(approvedCases(transactions), LAMBDA t : t.riskLevel = "LOW"))

calculateMetrics(transactions, metricsHistory, alerts) ==
    LET responseTimes == [i \in 1..Len(metricsHistory) |-> metricsHistory[i].responseTime]
        avgResponseTime ==
            IF Len(responseTimes) > 0
            THEN RoundDiv(SumSeq(responseTimes), RT_SCALE * Len(responseTimes))
            ELSE 0
        maxResponseTime == IF Len(responseTimes) > 0 THEN MaxSeq(responseTimes) ELSE 0
        tp == truePositives(transactions)
        fp == falsePositives(transactions)
        fn == falseNegatives(transactions)
        tn == trueNegatives(transactions)
        precision == Frac(tp, tp + fp)
        recall == Frac(tp, tp + fn)
        accuracy == Frac(tp + tn, Len(transactions))
        falsePositiveRate == Frac(fp, fp + tn)
        falseNegativeRate == Frac(fn, fn + tp)
    IN  [transactions_today |-> Len(transactions),
         fraud_detected |-> Len(fraudCases(transactions)),
         detection_rate |-> detectionRate(transactions),
         legitimate_approved |-> Len(approvedCases(transactions)),
         pending_review |-> Len(pendingCases(transactions)),
         avg_response_time_ms |-> avgResponseTime,
         max_response_time_ms |-> maxResponseTime,
         p95_latency_ms |-> calculatePercentile(responseTimes, 95).ret,
         p99_latency_ms |-> calculatePercentile(responseTimes, 99).ret,
         throughput_txn_per_sec |-> calculateThroughput(metricsHistory),
         model_accuracy |-> Clamp01(accuracy),
         model_precision |-> Clamp01(precision),
         model_recall |-> Clamp01(recall),
         false_positive_rate |-> Clamp01(falsePositiveRate),
         false_negative_rate |-> Clamp01(falseNegativeRate),
         active_alerts |-> alerts,
         system_health |->
             determineSystemHealth(detectionRate(transactions), falsePositiveRate,
                                   avgResponseTime, alerts)]

\* ------------------------------------------------------------------------
\* services/metrics: generateAlerts
\* ------------------------------------------------------------------------
\* String.prototype.toLowerCase, on the letters A-Z
LowerOf ==
    [c \in { SubSeq("ABCDEFGHIJKLMNOPQRSTUVWXYZ", i, i) : i \in 1..26 } |->
        LET i == CHOOSE j \in 1..26 : SubSeq("ABCDEFGHIJKLMNOPQRSTUVWXYZ", j, j) = c
        IN  SubSeq("abcdefghijklmnopqrstuvwxyz", i, i)]

LowerChar(c) == IF c \in DOMAIN LowerOf THEN LowerOf[c] ELSE c

RECURSIVE toLowerCase(_)
toLowerCase(s) ==
    IF Len(s) = 0 THEN ""
    ELSE LowerChar(SubSeq(s, 1, 1)) \o toLowerCase(SubSeq(s, 2, Len(s)))

\* String.prototype.includes
includes(s, search) ==
    \E i \in 1..(Len(s) - Len(search) + 1) : SubSeq(s, i, i + Len(search) - 1) = search

\* metrics.<field> || 0, for a rate and for a number of milliseconds; metrics
\* is a Partial<DashboardMetrics>: any field may be absent
RateOrZero(metrics, field) ==
    IF field \in DOMAIN metrics THEN metrics[field] ELSE [n |-> 0, d |-> 1]
NumberOrZero(metrics, field) ==
    IF field \in DOMAIN metrics THEN metrics[field] ELSE 0

\* an alert; timestamp is the instant its ISO string denotes, in ms; the
\* description text is presentation only and is left out
MkAlert(kind, time, severity, title, timestamp, related) ==
    [id |-> "ALERT_" \o kind \o "_" \o ToString(time),
     severity |-> severity,
     title |-> title,
     timestamp |-> timestamp,
     related_transaction_id |-> related]

\* High fraud detection rate alert
detectionRateAlert(metrics, time) ==
    LET rate == RateOrZero(metrics, "detection_rate")
    IN  IF FracGt(rate, 1, 10)
        THEN << MkAlert("HIGH_FRAUD", time,
                        IF FracGt(rate, 2, 10) THEN "CRITICAL" ELSE "WARNING",
                        "Elevated Fraud Detection Rate", time, "undefined") >>
        ELSE <<>>

\* High false positive rate alert
falsePositiveAlert(metrics, time) ==
    LET rate == RateOrZero(metrics, "false_positive_rate")
    IN  IF FracGt(rate, 2, 10)
        THEN << MkAlert("FALSE_POS", time, "WARNING", "High False Positive Rate",
                        time - 300000, "undefined") >>
        ELSE <<>>

performanceAlertMutInclusive(metrics, time) ==
    LET avgResponseTime == NumberOrZero(metrics, "avg_response_time_ms")
    IN  IF avgResponseTime >= 3000
        THEN << MkAlert("PERFORMANCE", time,
                        IF avgResponseTime >= 5000 THEN "CRITICAL" ELSE "WARNING",
                        "System Performance Degradation", time - 600000, "undefined") >>
        ELSE <<>>

\* Performance degradation alert
performanceAlert(metrics, time) ==
    LET avgResponseTime == NumberOrZero(metrics, "avg_response_time_ms")
    IN  IF avgResponseTime > 3000
        THEN << MkAlert("PERFORMANCE", time,
                        IF avgResponseTime > 5000 THEN "CRITICAL" ELSE "WARNING",
                        "System Performance Degradation", time - 600000, "undefined") >>
        ELSE <<>>

\* the smallest index of a set of indices, 0 when there is none: what
\* Array.prototype.find visits first
FirstIndex(S) == IF S = {} THEN 0 ELSE CHOOSE i \in S : \A j \in S : i <= j

highValueFraudMutLast(transactions) ==
    LET S == { i \in DOMAIN transactions :
                 transactions[i].riskLevel = "CRITICAL" /\ transactions[i].amount > 10000 }
    IN  IF S = {} THEN 0 ELSE CHOOSE i \in S : \A j \in S : i >= j

\* transactions.find(t => t.riskLevel === 'CRITICAL' && t.amount > 10000)
highValueFraud(transactions) ==
    FirstIndex({ i \in DOMAIN transactions :
                   transactions[i].riskLevel = "CRITICAL" /\ transactions[i].amount > 10000 })

\* transactions.find(t => merchant in lower case includes crypto, wire or transfer)
highRiskMerchant(transactions) ==
    FirstIndex({ i \in DOMAIN transactions :
                   LET merchant == toLowerCase(transactions[i].merchant)
                   IN  \/ includes(merchant, "crypto")
                       \/ includes(merchant, "wire")
                       \/ includes(merchant, "transfer") })

\* Recent high-value fraud alert
highValueAlert(transactions, time) ==
    LET i == highValueFraud(transactions)
    IN  IF i # 0
        THEN << MkAlert("HIGH_VALUE", time, "CRITICAL", "High-Value Fraud Detected",
                        time, transactions[i].id) >>
        ELSE <<>>

\* Merchant risk alert
merchantRiskAlert(transactions, time) ==
    LET i == highRiskMerchant(transactions)
    IN  IF i # 0
        THEN << MkAlert("MERCHANT_RISK", time, "WARNING", "High-Risk Merchant Activity",
                        time - 1200000, transactions[i].id) >>
        ELSE <<>>

\* Velocity alert
velocityAlertMutPerTransaction(transactions, time) ==
    LET recentTransactions == SliceFirst(transactions, 10)
    IN  IF Len(recentTransactions) >= 5
        THEN [i \in 1..Len(recentTransactions) |->
                 MkAlert("VELOCITY", time, "WARNING", "Abnormal Transaction Velocity",
                         time - 180000, "undefined")]
        ELSE <<>>

velocityAlert(transactions, time) ==
    LET recentTransactions == SliceFirst(transactions, 10)
    IN  IF Len(recentTransactions) >= 5
        THEN << MkAlert("VELOCITY", time, "WARNING", "Abnormal Transaction Velocity",
                        time - 180000, "undefined") >>
        ELSE <<>>

severityOrder(severity) ==
    CASE severity = "CRITICAL" -> 0
      [] severity = "WARNING" -> 1
      [] severity = "INFO" -> 2

\* the comparator of the final sort: negative when a goes before b
compareAlerts(a, b) ==
    LET severityDiff == severityOrder(a.severity) - severityOrder(b.severity)
    IN  IF severityDiff # 0 THEN severityDiff ELSE b.timestamp - a.timestamp

\* x placed into the sorted list s, behind every element it does not precede
RECURSIVE InsertAlert(_, _)
InsertAlert(x, s) ==
    IF s = <<>> THEN <<x>>
    ELSE IF compareAlerts(x, Head(s)) < 0 THEN <<x>> \o s
    ELSE <<Head(s)>> \o InsertAlert(x, Tail(s))

sortAlertsMutPushOrder(alerts) == alerts

\* alerts.sort(comparator): Array.prototype.sort is stable
RECURSIVE sortAlerts(_)
sortAlerts(alerts) ==
    IF alerts = <<>> THEN <<>>
    ELSE InsertAlert(alerts[Len(alerts)], sortAlerts(SubSeq(alerts, 1, Len(alerts) - 1)))

\* time: the clock read by new Date() and Date.now() during the call
generateAlerts(transactions, metrics, time) ==
    sortAlerts(detectionRateAlert(metrics, time)
               \o falsePositiveAlert(metrics, time)
               \o performanceAlert(metrics, time)
               \o highValueAlert(transactions, time)
               \o merchantRiskAlert(transactions, time)
               \o velocityAlert(transactions, time))

\* ------------------------------------------------------------------------
\* services/gemini: analyzeTransactionWithGemini
\* ------------------------------------------------------------------------
\* JSON.stringify of a JSON value: null, or an object with the five
\* properties of the response schema
JSONstringify(value) ==
    IF value.type = "null" THEN "null"
    ELSE "{\"isLikelyFraud\":" \o (IF value.isLikelyFraud THEN "true" ELSE "false")
         \o ",\"confidence\":" \o ToString(value.confidence)
         \o ",\"reasoning\":\"" \o value.reasoning
         \o "\",\"recommendedAction\":\"" \o value.recommendedAction
         \o "\",\"keyRiskFactors\":[\"" \o value.keyRiskFactors[1] \o "\"]}"

\* the JSON values whose texts the parser is given
JsonObjects ==
    [type : { "object" },
     isLikelyFraud : { TRUE },
     confidence : { -5, 0, 50, 100, 150 },
     reasoning : { "Matches a known refund scam" },
     recommendedAction : { "BLOCK", "ALLOW", "HOLD", "REVIEW" },
     keyRiskFactors : { << "Signature match" >> }]

JsonNull ==
    [type |-> "null", isLikelyFraud |-> FALSE, confidence |-> 0, reasoning |-> "",
     recommendedAction |-> "", keyRiskFactors |-> <<>>]

JsonValues == JsonObjects \cup { JsonNull }

\* JSON.parse: the value a text denotes, or a SyntaxError
JSONparse(text) ==
    LET denoted == { v \in JsonValues : JSONstringify(v) = text }
    IN  IF denoted = {}
        THEN [ok |-> FALSE, message |-> "Unexpected token in JSON"]
        ELSE [ok |-> TRUE, value |-> CHOOSE v \in denoted : TRUE]

\* knowledgeBase.find(c => c.id === transaction.matchedCaseId): its position,
\* 0 for undefined
matchedCase(transaction, kb) ==
    FirstIndex({ i \in DOMAIN kb : kb[i].id = transaction.matchedCaseId })

\* the try block after the awaited call has settled with outcome
tryBlock(outcome) ==
    IF outcome.kind = "throw"
    THEN [threw |-> TRUE, errorMsg |-> outcome.message]
    ELSE IF ~outcome.hasText \/ outcome.text = ""
    THEN [threw |-> TRUE, errorMsg |-> "Empty response from Gemini"]
    ELSE LET parsed == JSONparse(outcome.text)
         IN  IF ~parsed.ok
             THEN [threw |-> TRUE, errorMsg |-> parsed.message]
             ELSE IF parsed.value.type = "null"
             THEN [threw |-> TRUE,
                   errorMsg |-> "Cannot read properties of null (reading 'confidence')"]
             ELSE [threw |-> FALSE, value |-> parsed.value]

failureReason(apiKey, errorMsg) ==
    IF apiKey = "" THEN "API Key not configured. See console for details."
    ELSE IF includes(errorMsg, "INVALID_ARGUMENT") THEN "Invalid or expired API Key."
    ELSE IF includes(errorMsg, "429") THEN "API rate limit exceeded. Try again later."
    ELSE IF includes(errorMsg, "UNAUTHENTICATED")
    THEN "API authentication failed. Check your key."
    ELSE "AI Analysis unavailable. Check API Key."

catchBlockMutRethrowSyntaxError(apiKey, errorMsg) ==
    IF includes(errorMsg, "Unexpected token")
    THEN [threw |-> TRUE, errorMsg |-> errorMsg]
    ELSE [threw |-> FALSE,
          value |-> [type |-> "object",
                     isLikelyFraud |-> FALSE,
                     confidence |-> 0,
                     reasoning |-> failureReason(apiKey, errorMsg),
                     recommendedAction |-> "HOLD",
                     keyRiskFactors |-> << "System Error" >>]]

\* the catch block: it returns the fallback and throws nothing
catchBlock(apiKey, errorMsg) ==
    [threw |-> FALSE,
     value |-> [type |-> "object",
                isLikelyFraud |-> FALSE,
                confidence |-> 0,
                reasoning |-> failureReason(apiKey, errorMsg),
                recommendedAction |-> "HOLD",
                keyRiskFactors |-> << "System Error" >>]]

\* how the returned promise settles, given the outcome of the awaited call
analyzeTransactionWithGemini(transaction, kb, apiKey, outcome) ==
    LET tried == tryBlock(outcome)
        final == IF tried.threw THEN catchBlock(apiKey, tried.errorMsg) ELSE tried
    IN  IF final.threw
        THEN [settled |-> "rejected", reason |-> final.errorMsg]
        ELSE [settled |-> "resolved", value |-> final.value]

\* ------------------------------------------------------------------------
\* services/documentStore: the reference tables and their accessors
\* ------------------------------------------------------------------------
\* what Array.prototype.find returns: undefined, or the element found
Undefined == [defined |-> FALSE]
Defined(v) == [defined |-> TRUE, value |-> v]
FindResult(table, i) == IF i = 0 THEN Undefined ELSE Defined(table[i])

\* the tables as the module is loaded; nested rule and issue lists and the
\* fractional ratings, which no accessor reads, are left out
amlPolicies ==
    << [id |-> "AML_POL_001", name |-> "Enhanced Due Diligence (EDD) Policy",
        jurisdiction |-> "US", version |-> "2.1"],
       [id |-> "AML_POL_002", name |-> "Transaction Velocity Policy",
        jurisdiction |-> "US", version |-> "1.5"],
       [id |-> "AML_POL_003", name |-> "Merchant Category Risk Policy",
        jurisdiction |-> "US", version |-> "1.0"] >>

sanctionLists ==
    << [entity_id |-> "SANC_001", name |-> "Crimson Trading LLC", type |-> "ORGANIZATION",
        country |-> "IRAN", action |-> "BLOCK_ALL"],
       [entity_id |-> "SANC_002", name |-> "Viktor Petrov", type |-> "INDIVIDUAL",
        country |-> "RUSSIA", action |-> "BLOCK_ALL"],
       [entity_id |-> "SANC_003", name |-> "North Korean Trade Finance Bank", type |-> "BANK",
        country |-> "NORTH_KOREA", action |-> "BLOCK_ALL"],
       [entity_id |-> "SANC_004", name |-> "Hezbollah Financial Network",
        type |-> "ORGANIZATION", country |-> "LEBANON", action |-> "BLOCK_ALL"],
       [entity_id |-> "SANC_005", name |-> "Ahmed Hassan Al-Mansouri", type |-> "INDIVIDUAL",
        country |-> "YEMEN", action |-> "REVIEW"] >>

merchantRatings ==
    << [id |-> "MERCH_001", merchant_name |-> "QuickMart Retail", risk_tier |-> "LOW",
        action_on_transaction |-> "AUTO_APPROVE"],
       [id |-> "MERCH_002", merchant_name |-> "CryptoExchange Pro", risk_tier |-> "HIGH",
        action_on_transaction |-> "FLAG"],
       [id |-> "MERCH_003", merchant_name |-> "Adult Entertainment Inc", risk_tier |-> "HIGH",
        action_on_transaction |-> "REQUIRE_VERIFICATION"],
       [id |-> "MERCH_004", merchant_name |-> "Global Tech Solutions", risk_tier |-> "LOW",
        action_on_transaction |-> "AUTO_APPROVE"],
       [id |-> "MERCH_005", merchant_name |-> "Suspicious Wire Transfer Co",
        risk_tier |-> "HIGH", action_on_transaction |-> "BLOCK"] >>

customerPolicies ==
    << [id |-> "CUST_POL_001", user_id |-> "USER_VIP_001", daily_limit |-> 100000,
        monthly_limit |-> 1000000, requires_approval_above |-> 50000,
        allowed_countries |-> << "US", "UK", "CA", "AU", "SG" >>,
        blocked_countries |-> << "KP", "IR", "SY" >>,
        max_transactions_per_day |-> 100, risk_tier |-> "LOW",
        compliance_status |-> "VERIFIED_KYC"],
       [id |-> "CUST_POL_002", user_id |-> "USER_STANDARD_001", daily_limit |-> 10000,
        monthly_limit |-> 50000, requires_approval_above |-> 5000,
        allowed_countries |-> << "US", "CA", "UK" >>,
        blocked_countries |-> << "KP", "IR", "SY", "CU" >>,
        max_transactions_per_day |-> 20, risk_tier |-> "MEDIUM",
        compliance_status |-> "VERIFIED_KYC"],
       [id |-> "CUST_POL_003", user_id |-> "USER_NEW_001", daily_limit |-> 2000,
        monthly_limit |-> 10000, requires_approval_above |-> 1000,
        allowed_countries |-> << "US" >>,
        blocked_countries |-> << "KP", "IR", "SY", "CU", "VE" >>,
        max_transactions_per_day |-> 5, risk_tier |-> "HIGH",
        compliance_status |-> "PENDING_KYC"],
       [id |-> "CUST_POL_004", user_id |-> "USER_SUSPENDED_001", daily_limit |-> 0,
        monthly_limit |-> 0, requires_approval_above |-> 0,
        allowed_countries |-> << >>,
        blocked_countries |-> << "*" >>,
        max_transactions_per_day |-> 0, risk_tier |-> "HIGH",
        compliance_status |-> "FAILED_KYC"] >>

\* the seed audit log; timestamps in ms relative to loadTime, the instant
\* the module is loaded
auditLogs(loadTime) ==
    << [id |-> "AUDIT_001", timestamp |-> loadTime - 3600000,
        event_type |-> "POLICY_CHANGE", changed_by |-> "compliance-admin",
        details |-> [reason |-> "Increased fraud detection sensitivity"],
        approval_status |-> "APPROVED"],
       [id |-> "AUDIT_002", timestamp |-> loadTime - 7200000,
        event_type |-> "TRANSACTION_BLOCKED", changed_by |-> "system",
        details |-> [reason |-> "Merchant on sanction list - Suspicious Wire Transfer Co"],
        approval_status |-> "APPROVED"],
       [id |-> "AUDIT_003", timestamp |-> loadTime - 14400000,
        event_type |-> "TRANSACTION_APPROVED", changed_by |-> "analyst-user-1",
        details |-> [reason |-> "Manual override - verified legitimate customer"],
        approval_status |-> "APPROVED"] >>

\* the store handed out by getDocumentStore: the five module-level arrays
getDocumentStore(loadTime) ==
    [policies |-> amlPolicies,
     sanction_lists |-> sanctionLists,
     merchant_ratings |-> merchantRatings,
     customer_policies |-> customerPolicies,
     audit_logs |-> auditLogs(loadTime)]

\* amlPolicies.find(p => p.id === policyId)
getAMLPolicy(store, policyId) ==
    FindResult(store.policies,
               FirstIndex({ i \in DOMAIN store.policies : store.policies[i].id = policyId }))

checkSanctionStatusMutOneDirection(store, entityName) ==
    FindResult(store.sanction_lists,
               FirstIndex({ i \in DOMAIN store.sanction_lists :
                              includes(toLowerCase(store.sanction_lists[i].name),
                                       toLowerCase(entityName)) }))

\* sanctionLists.find(s => either lower-cased name includes the other)
checkSanctionStatus(store, entityName) ==
    FindResult(store.sanction_lists,
               FirstIndex({ i \in DOMAIN store.sanction_lists :
                              \/ includes(toLowerCase(store.sanction_lists[i].name),
                                          toLowerCase(entityName))
                              \/ includes(toLowerCase(entityName),
                                          toLowerCase(store.sanction_lists[i].name)) }))

\* merchantRatings.find(m => lower-cased names are equal)
getMerchantRisk(store, merchantName) ==
    FindResult(store.merchant_ratings,
               FirstIndex({ i \in DOMAIN store.merchant_ratings :
                              toLowerCase(store.merchant_ratings[i].merchant_name)
                                  = toLowerCase(merchantName) }))

getCustomerPolicyMutFirstAsDefault(store, userId) ==
    LET i == FirstIndex({ j \in DOMAIN store.customer_policies :
                            store.customer_policies[j].user_id = userId })
    IN  FindResult(store.customer_policies, IF i = 0 THEN 1 ELSE i)

\* customerPolicies.find(p => p.user_id === userId)
getCustomerPolicy(store, userId) ==
    FindResult(store.customer_policies,
               FirstIndex({ i \in DOMAIN store.customer_policies :
                              store.customer_policies[i].user_id = userId }))

\* Array.prototype.includes on a list of country codes
arrayIncludes(list, x) == \E i \in DOMAIN list : list[i] = x

checkPolicyComplianceMutShortCircuit(store, userId, amount, country) ==
    LET found == getCustomerPolicy(store, userId)
    IN  IF ~found.defined
        THEN [compliant |-> FALSE, violations |-> << "Customer policy not found" >>]
        ELSE LET policy == found.value
                 violations ==
                     IF amount > policy.daily_limit
                     THEN << "Exceeds daily limit of $" \o ToString(policy.daily_limit) >>
                     ELSE IF arrayIncludes(policy.blocked_countries, country)
                     THEN << "Transaction to blocked country: " \o country >>
                     ELSE IF /\ Len(policy.allowed_countries) > 0
                             /\ ~arrayIncludes(policy.allowed_countries, country)
                     THEN << "Country " \o country \o " not in allowed list" >>
                     ELSE IF policy.compliance_status = "FAILED_KYC"
                     THEN << "Customer failed KYC verification" >>
                     ELSE << >>
             IN  [compliant |-> Len(violations) = 0, violations |-> violations]

checkPolicyCompliance(store, userId, amount, country) ==
    LET found == getCustomerPolicy(store, userId)
    IN  IF ~found.defined
        THEN [compliant |-> FALSE, violations |-> << "Customer policy not found" >>]
        ELSE LET policy == found.value
                 violations ==
                     (IF amount > policy.daily_limit
                      THEN << "Exceeds daily limit of $" \o ToString(policy.daily_limit) >>
                      ELSE << >>)
                     \o
                     (IF arrayIncludes(policy.blocked_countries, country)
                      THEN << "Transaction to blocked country: " \o country >>
                      ELSE << >>)
                     \o
                     (IF /\ Len(policy.allowed_countries) > 0
                         /\ ~arrayIncludes(policy.allowed_countries, country)
                      THEN << "Country " \o country \o " not in allowed list" >>
                      ELSE << >>)
                     \o
                     (IF policy.compliance_status = "FAILED_KYC"
                      THEN << "Customer failed KYC verification" >>
                      ELSE << >>)
             IN  [compliant |-> Len(violations) = 0, violations |-> violations]

\* ret: the log entry returned; store: the store after auditLogs.push(log)
\* an approvalStatus of "undefined" stands for the argument left out
logAuditEvent(store, eventType, changedBy, details, approvalStatus, time) ==
    LET log == [id |-> "AUDIT_" \o ToString(time),
                timestamp |-> time,
                event_type |-> eventType,
                changed_by |-> changedBy,
                details |-> details,
                approval_status |-> IF approvalStatus = "undefined" THEN "PENDING"
                                    ELSE approvalStatus]
    IN  [ret |-> log, store |-> [store EXCEPT !.audit_logs = Append(@, log)]]

\* Array.prototype.reverse
reverse(s) == [i \in 1..Len(s) |-> s[Len(s) + 1 - i]]

\* [...auditLogs].reverse().slice(0, limit), for limit >= 0; store: the
\* store after the call
getAuditLogs(store, limit) ==
    [ret |-> SliceFirst(reverse(store.audit_logs), limit), store |-> store]

\* ------------------------------------------------------------------------
\* constants.ts: the seed knowledge base
\* ------------------------------------------------------------------------
INITIAL_KNOWLEDGE_BASE ==
    << [id |-> "CASE_001",
        narrative |-> "Urgent transfer for medical supplies to overseas vendor",
        merchant |-> "Medi-Global",
        type |-> "APP Fraud (Authorized Push Payment)",
        vectorId |-> "undefined"],
       [id |-> "CASE_002",
        narrative |-> "Refund verification small deposit",
        merchant |-> "TechRefund Support",
        type |-> "Refund Scam",
        vectorId |-> "undefined"],
       [id |-> "CASE_003",
        narrative |-> "Payment for winning lottery tax clearance",
        merchant |-> "Lottery Commission",
        type |-> "Advance Fee Fraud",
        vectorId |-> "undefined"] >>

\* ------------------------------------------------------------------------
\* App: state
\* ------------------------------------------------------------------------
VARIABLES
    transactions,       \* useState<Transaction[]>, newest first
    knowledgeBase,      \* useState<FraudCase[]>
    selectedTxId,       \* useState<string | undefined>
    isPaused,           \* useState(false)
    metricsHistoryRef,  \* useRef<MetricsSnapshot[]>
    historyRef,         \* useRef<number[]>
    userProfile,        \* useState<UserProfile>
    now,                \* the wall clock read by Date.now()
    txCount,            \* transactions generated so far (source of fresh ids)
    argIntact,          \* the array passed to the last recordMetricsSnapshot
                        \* call still held, after the call, what it held before
    lastOp,             \* the handler that ran last
    steps,              \* handlers run since the initial state
    call,               \* a direct call of a service function: its arguments
    result,             \* ... and what it returned
    documentStore       \* the tables of services/documentStore

serviceVars == << call, result, documentStore >>

driverVars == << transactions, knowledgeBase, selectedTxId, isPaused,
                 metricsHistoryRef, historyRef, userProfile, now, txCount,
                 argIntact, lastOp, steps >>

\* the seed history of the profile
SEED_HISTORY == << 45, 60, 55, 12, 40, 50, 48 >>

TxId(n) == "TX" \o ToString(n)

\* ------------------------------------------------------------------------
\* Outcomes of the random source and of the timer
\* ------------------------------------------------------------------------
\* background draws of a tick: an ordinary amount, a coincidental mid-range
\* signature match, a moderately unusual amount, an anomalous high amount
TickDraws ==
    { [amount |-> 46, sig |-> 5, merchant |-> "Amazon", narrative |-> "Online order"],
      [amount |-> 49, sig |-> 60, merchant |-> "Wire Transfer Co", narrative |-> "Refund verification"],
      [amount |-> 80, sig |-> 12, merchant |-> "Starbucks", narrative |-> "Coffee"],
      [amount |-> 15000, sig |-> 5, merchant |-> "Crypto Exchange", narrative |-> "Asset purchase"] }

\* draws of a forced anomaly
BehavioralDraws ==
    { [k |-> 4, sig |-> 5, merchant |-> "Amazon", narrative |-> "Online order"] }

SignatureDraws(kb) ==
    { [amount |-> 46, sig |-> 92, caseIdx |-> i] : i \in {1, Len(kb)} }

\* measured scorer latencies, tenths of a millisecond
ResponseTimes == { 4, 16 }

\* ------------------------------------------------------------------------
\* App: the interval callback, as a function of the state it reads
\* ------------------------------------------------------------------------
\* setTransactions(prev => [newTx, ...prev].slice(0, 50))
TickAppend(prev, newTx) == SliceFirst(<<newTx>> \o prev, TX_CAP)

ShouldUpdateProfileMutNotCritical(newTx) == newTx.riskLevel # "CRITICAL"

\* if (newTx.riskLevel === 'LOW')
ShouldUpdateProfile(newTx) == newTx.riskLevel = "LOW"

RollingWindowMutNoEvict(history, amount) == Append(history, amount)

\* [...historyRef.current, newTx.amount].slice(-50)
RollingWindow(history, amount) == SliceLast(Append(history, amount), HISTORY_WINDOW)

\* st: the fields the callback reads and writes
TickEffect(st, kb, draw, responseTime) ==
    LET time == st.now + TICK_MS
        newTx == generateTransaction(st.userProfile, kb, "NONE", draw,
                                     TxId(st.txCount + 1), time)
        newHistory == RollingWindow(st.historyRef, newTx.amount)
        update == ShouldUpdateProfile(newTx)
        recorded == recordMetricsSnapshot(st.metricsHistoryRef, responseTime,
                                          newTx.riskLevel = "CRITICAL", time)
    IN  [transactions |-> TickAppend(st.transactions, newTx),
         metricsHistoryRef |-> recorded.ret,
         argIntact |-> (recorded.history = st.metricsHistoryRef),
         historyRef |-> IF update THEN newHistory ELSE st.historyRef,
         userProfile |-> IF update THEN MkProfile(newHistory) ELSE st.userProfile,
         now |-> time,
         txCount |-> st.txCount + 1]

\* the state of a freshly mounted App
Mounted ==
    [transactions |-> <<>>,
     metricsHistoryRef |-> <<>>,
     historyRef |-> SEED_HISTORY,
     userProfile |-> MkProfile(SEED_HISTORY),
     argIntact |-> TRUE,
     now |-> 0,
     txCount |-> 0]

\* the draws of a quiet run: ordinary amounts, no signature match
QuietDraw(i) ==
    [amount |-> << 44, 50, 47 >>[(i % 3) + 1], sig |-> 5,
     merchant |-> "Amazon", narrative |-> "Online order"]

\* the state after the quiet ticks a+1 .. b, started in st
RECURSIVE QuietTicks(_, _, _)
QuietTicks(st, a, b) ==
    IF b <= a THEN st
    ELSE IF b = a + 1
    THEN TickEffect(st, INITIAL_KNOWLEDGE_BASE, QuietDraw(b), 4 + (b % 2))
    ELSE LET mid == (a + b) \div 2
             half == QuietTicks(st, a, mid)
         IN  IF half.txCount = mid THEN QuietTicks(half, mid, b) ELSE half

\* the state after k ticks of a quiet run
QuietRun(k) == QuietTicks(Mounted, 0, k)

\* lengths of the quiet runs the exploration starts from: a fresh mount, a
\* profile window one short of full, a transaction list one short of full
QuietRunLengths == { 0, 42, 49 }

\* ... and a snapshot log one short of full
LongRunLengths == { 0, 999 }

SetCurrent(st) ==
    /\ transactions' = st.transactions
    /\ metricsHistoryRef' = st.metricsHistoryRef
    /\ historyRef' = st.historyRef
    /\ userProfile' = st.userProfile
    /\ argIntact' = st.argIntact
    /\ now' = st.now
    /\ txCount' = st.txCount

StartAfter(lengths) ==
    /\ \E k \in lengths :
          LET st == QuietRun(k)
          IN  /\ transactions = st.transactions
              /\ metricsHistoryRef = st.metricsHistoryRef
              /\ historyRef = st.historyRef
              /\ userProfile = st.userProfile
              /\ argIntact = st.argIntact
              /\ now = st.now
              /\ txCount = st.txCount
    /\ knowledgeBase = INITIAL_KNOWLEDGE_BASE
    /\ selectedTxId = "undefined"
    /\ isPaused = FALSE
    /\ lastOp = "mount"
    /\ steps = 0
    /\ documentStore = getDocumentStore(Mounted.now)

NoCall ==
    /\ call = [fn |-> "none"]
    /\ result = [done |-> FALSE]

DriverInit == StartAfter(QuietRunLengths) /\ NoCall

LongRunInit == StartAfter(LongRunLengths) /\ NoCall

\* ------------------------------------------------------------------------
\* App: handlers
\* ------------------------------------------------------------------------
\* the setInterval callback; the interval exists only while not paused
CurrentMutStaleProfile ==
    [transactions |-> transactions,
     metricsHistoryRef |-> metricsHistoryRef,
     historyRef |-> historyRef,
     userProfile |-> MkProfile(SEED_HISTORY),
     argIntact |-> argIntact,
     now |-> now,
     txCount |-> txCount]

\* what the interval callback reads when it fires: the effect is re-run,
\* and the callback re-created, whenever knowledgeBase, userProfile or
\* isPaused change, so it closes over the values of the latest render
Current ==
    [transactions |-> transactions,
     metricsHistoryRef |-> metricsHistoryRef,
     historyRef |-> historyRef,
     userProfile |-> userProfile,
     argIntact |-> argIntact,
     now |-> now,
     txCount |-> txCount]

IntervalRunningMutAlways == TRUE

\* if (isPaused) return: no interval is set up while paused, and the
\* running one is cleared when isPaused becomes true
IntervalRunning == ~isPaused

TickStep ==
    /\ steps < MaxSteps
    /\ IntervalRunning
    /\ \E draw \in TickDraws, rt \in ResponseTimes :
          SetCurrent(TickEffect(Current, knowledgeBase, draw, rt))
    /\ lastOp' = "tick"
    /\ steps' = steps + 1
    /\ UNCHANGED << knowledgeBase, selectedTxId, isPaused >>

Tick == TickStep /\ UNCHANGED serviceVars

\* setTransactions(prev => [newTx, ...prev])
InjectPrepend(prev, newTx) == <<newTx>> \o prev

InjectStep ==
    /\ steps < MaxSteps
    /\ \E type \in { "BEHAVIORAL", "SIGNATURE" } :
       \E draw \in (IF type = "BEHAVIORAL" THEN BehavioralDraws
                    ELSE SignatureDraws(knowledgeBase)) :
          LET newTx == generateTransaction(userProfile, knowledgeBase, type, draw,
                                           TxId(txCount + 1), now + 1)
          IN  /\ transactions' = InjectPrepend(transactions, newTx)
              /\ selectedTxId' = newTx.id
    /\ isPaused' = TRUE
    /\ now' = now + 1
    /\ txCount' = txCount + 1
    /\ lastOp' = "inject"
    /\ steps' = steps + 1
    /\ UNCHANGED << knowledgeBase, metricsHistoryRef, historyRef, userProfile, argIntact >>

triggerFraudEvent == InjectStep /\ UNCHANGED serviceVars

\* the transactions the analyst panel can act on: the newest ones
Pickable == { transactions[i] : i \in 1..Min(Len(transactions), 2) }

NewCaseMutNoPrefix(tx) ==
    [id |-> tx.id,
     narrative |-> tx.narrative,
     merchant |-> tx.merchant,
     type |-> "Confirmed Fraud (Analyst Feedback)",
     vectorId |-> "pending_vectorization"]

NewCase(tx) ==
    [id |-> "CASE_" \o tx.id,
     narrative |-> tx.narrative,
     merchant |-> tx.merchant,
     type |-> "Confirmed Fraud (Analyst Feedback)",
     vectorId |-> "pending_vectorization"]

handleAddToKnowledgeBase ==
    /\ steps < MaxSteps
    /\ \E tx \in Pickable : knowledgeBase' = Append(knowledgeBase, NewCase(tx))
    /\ lastOp' = "addToKnowledgeBase"
    /\ steps' = steps + 1
    /\ UNCHANGED << transactions, selectedTxId, isPaused, metricsHistoryRef,
                    historyRef, userProfile, argIntact, now, txCount, call, result, documentStore >>

UpdateStatusMapMutNewest(prev, id, status) ==
    [i \in 1..Len(prev) |->
        IF prev[i].id = id \/ i = 1 THEN [prev[i] EXCEPT !.status = status] ELSE prev[i]]

\* prev.map(t => t.id === id ? { ...t, status } : t)
UpdateStatusMap(prev, id, status) ==
    [i \in 1..Len(prev) |->
        IF prev[i].id = id THEN [prev[i] EXCEPT !.status = status] ELSE prev[i]]

\* statuses an analyst sets
AnalystStatuses == { "ALLOWED", "BLOCKED", "FLAGGED" }

UpdateStatusStep ==
    /\ steps < MaxSteps
    /\ \E id \in { tx.id : tx \in Pickable } \cup { "TX_unknown" },
          status \in AnalystStatuses :
          transactions' = UpdateStatusMap(transactions, id, status)
    /\ lastOp' = "updateStatus"
    /\ steps' = steps + 1
    /\ UNCHANGED << knowledgeBase, selectedTxId, isPaused, metricsHistoryRef,
                    historyRef, userProfile, argIntact, now, txCount >>

handleUpdateStatus == UpdateStatusStep /\ UNCHANGED serviceVars

\* onClick={() => setIsPaused(!isPaused)}
togglePause ==
    /\ steps < MaxSteps
    /\ isPaused' = ~isPaused
    /\ lastOp' = "togglePause"
    /\ steps' = steps + 1
    /\ UNCHANGED << transactions, knowledgeBase, selectedTxId, metricsHistoryRef,
                    historyRef, userProfile, argIntact, now, txCount, call, result, documentStore >>

vars == << driverVars, serviceVars >>

Next ==
    \/ Tick
    \/ triggerFraudEvent
    \/ handleAddToKnowledgeBase
    \/ handleUpdateStatus
    \/ togglePause

Spec == DriverInit /\ [][Next]_vars

\* the same program, observed late in a long session
SpecLongRun == LongRunInit /\ [][Next]_vars

\* ------------------------------------------------------------------------
\* Direct calls of the service functions, on arguments drawn from bounded
\* sets; the App stays as mounted
\* ------------------------------------------------------------------------
\* longest transaction list passed to calculateMetrics
MaxTxs == 3
\* longest transaction list whose every reordering is tried
MaxPermLen == 3
\* longest list of response times passed to calculatePercentile
MaxValues == 3

SeqsUpTo(S, n) == UNION { [1..m -> S] : m \in 0..n }

AppIdle == StartAfter({ 0 }) /\ result = [done |-> FALSE]

Return(r) ==
    /\ ~result.done
    /\ result' = r
    /\ UNCHANGED << driverVars, call, documentStore >>

\* --- generateTransaction ---
\* histories: the seed, a single amount (stdDev 0), and a window whose
\* stdDev is exactly 2.0, so that whole amounts hit the z thresholds exactly
ScorerHistories == { SEED_HISTORY, << 50 >>, << 48, 50, 52 >> }
ScorerAmounts == { 43, 44, 50, 53, 54, 56, 57, 15000 }
BackgroundScores == { 5, 49, 50, 84 }
ForcedScores == { 85, 92 }

ScorerCalls ==
    { [fn |-> "generateTransaction", profile |-> MkProfile(h), forcedType |-> "NONE",
       draw |-> [amount |-> a, sig |-> g, merchant |-> "Amazon",
                 narrative |-> "Online order"]] :
        h \in ScorerHistories, a \in ScorerAmounts, g \in BackgroundScores }
    \cup
    { [fn |-> "generateTransaction", profile |-> MkProfile(h), forcedType |-> "BEHAVIORAL",
       draw |-> [k |-> k, sig |-> g, merchant |-> "Amazon",
                 narrative |-> "Online order"]] :
        h \in ScorerHistories, k \in { 4, 6 }, g \in BackgroundScores }
    \cup
    { [fn |-> "generateTransaction", profile |-> MkProfile(h), forcedType |-> "SIGNATURE",
       draw |-> [amount |-> a, sig |-> g, caseIdx |-> c]] :
        h \in ScorerHistories, a \in { 50, 53 }, g \in ForcedScores, c \in { 1, 3 } }

ScorerInit == AppIdle /\ call \in ScorerCalls

CallGenerateTransaction ==
    /\ call.fn = "generateTransaction"
    /\ Return([done |-> TRUE,
               tx |-> generateTransaction(call.profile, INITIAL_KNOWLEDGE_BASE,
                                          call.forcedType, call.draw, TxId(1), TICK_MS)])

SpecScorer == ScorerInit /\ [][CallGenerateTransaction]_vars

\* --- calculateMetrics ---
RiskLevels == { "LOW", "MEDIUM", "CRITICAL" }
Statuses == { "PENDING", "ANALYZING", "BLOCKED", "ALLOWED", "FLAGGED" }
Kinds == [riskLevel : RiskLevels, status : Statuses]

\* a transaction of the given risk level and status, scored accordingly
MkTx(i, kind) ==
    [id |-> TxId(i),
     timestamp |-> i * TICK_MS,
     amount |-> 50,
     merchant |-> "Amazon",
     narrative |-> "Online order",
     zScore |-> 0,
     signatureMatchScore |-> IF kind.riskLevel = "CRITICAL" THEN 92
                             ELSE IF kind.riskLevel = "MEDIUM" THEN 60 ELSE 5,
     matchedCaseId |-> "none",
     riskLevel |-> kind.riskLevel,
     status |-> kind.status]

MkTxs(kinds) == [i \in 1..Len(kinds) |-> MkTx(i, kinds[i])]

MkSnapshots(responseTimes) ==
    [i \in 1..Len(responseTimes) |->
        [timestamp |-> i * TICK_MS, responseTime |-> responseTimes[i], isFraud |-> FALSE]]

MkAlerts(n, sev) ==
    [i \in 1..n |->
        [id |-> "ALERT_" \o ToString(i), severity |-> sev, title |-> "Alert",
         timestamp |-> i]]

\* snapshot logs: none, sub-millisecond latencies, latencies above 5 s
SnapshotLogs == { <<>>, MkSnapshots(<< 4, 16, 5 >>), MkSnapshots(<< 60004, 50000 >>) }
AlertLists == { <<>>, MkAlerts(6, "CRITICAL"), MkAlerts(11, "WARNING") }

MetricsCalls(maxLen) ==
    { [fn |-> "calculateMetrics", transactions |-> MkTxs(k),
       metricsHistory |-> <<>>, alerts |-> <<>>] : k \in SeqsUpTo(Kinds, maxLen) }
    \cup
    { [fn |-> "calculateMetrics", transactions |-> MkTxs(k),
       metricsHistory |-> h, alerts |-> a] :
        k \in SeqsUpTo(Kinds, 1), h \in SnapshotLogs, a \in AlertLists }

MetricsInit == AppIdle /\ call \in MetricsCalls(MaxTxs)

CallCalculateMetrics ==
    /\ call.fn = "calculateMetrics"
    /\ Return([done |-> TRUE,
               metrics |-> calculateMetrics(call.transactions, call.metricsHistory,
                                            call.alerts)])

SpecMetrics == MetricsInit /\ [][CallCalculateMetrics]_vars

\* --- calculateMetrics on a list and on a reordering of it ---
PermKinds ==
    { [riskLevel |-> "LOW", status |-> "PENDING"],
      [riskLevel |-> "LOW", status |-> "ALLOWED"],
      [riskLevel |-> "LOW", status |-> "BLOCKED"],
      [riskLevel |-> "MEDIUM", status |-> "ANALYZING"],
      [riskLevel |-> "CRITICAL", status |-> "ALLOWED"],
      [riskLevel |-> "CRITICAL", status |-> "BLOCKED"] }

Orderings(n) == { f \in [1..n -> 1..n] : \A i, j \in 1..n : f[i] = f[j] => i = j }

Reorder(s, f) == [i \in 1..Len(s) |-> s[f[i]]]

\* the ten-transaction example: exactly three CRITICAL and BLOCKED, the
\* other seven neither CRITICAL nor BLOCKED
TenKinds ==
    [i \in 1..10 |->
        IF i <= 3 THEN [riskLevel |-> "CRITICAL", status |-> "BLOCKED"]
        ELSE IF i % 3 = 0 THEN [riskLevel |-> "LOW", status |-> "ALLOWED"]
        ELSE IF i % 3 = 1 THEN [riskLevel |-> "MEDIUM", status |-> "PENDING"]
        ELSE [riskLevel |-> "LOW", status |-> "FLAGGED"]]

\* reorderings of the ten: the three fraud cases moved to places a < b < c
TenReorderings ==
    { [i \in 1..10 |->
          IF i = p[1] THEN 1 ELSE IF i = p[2] THEN 2 ELSE IF i = p[3] THEN 3
          ELSE 3 + Cardinality({ j \in 1..i : j \notin { p[1], p[2], p[3] } })] :
        p \in { q \in [1..3 -> 1..10] : q[1] < q[2] /\ q[2] < q[3] } }

ReorderCall(txs, f) ==
    [fn |-> "calculateMetrics2", transactions |-> txs, reordered |-> Reorder(txs, f),
     metricsHistory |-> MkSnapshots(<< 4, 16, 5 >>), alerts |-> <<>>]

ReorderInit ==
    /\ AppIdle
    /\ \/ \E m \in 0..MaxPermLen :
             \E ks \in [1..m -> PermKinds], f \in Orderings(m) :
                call = ReorderCall(MkTxs(ks), f)
       \/ \E f \in TenReorderings : call = ReorderCall(MkTxs(TenKinds), f)

CallCalculateMetricsTwice ==
    /\ call.fn = "calculateMetrics2"
    /\ Return([done |-> TRUE,
               metrics |-> calculateMetrics(call.transactions, call.metricsHistory,
                                            call.alerts),
               reordered |-> calculateMetrics(call.reordered, call.metricsHistory,
                                              call.alerts)])

SpecReorder == ReorderInit /\ [][CallCalculateMetricsTwice]_vars

\* --- calculatePercentile ---
\* response times in tenths of a millisecond: 0.4, 0.5, 1.6, 2.4, 10.0
LatencyValues == { 4, 5, 16, 24, 100 }
Percentiles == { 0, 50, 95, 99 }

\* 10, 20, ..., 100 ms, in three orders
TenLatencies ==
    { [i \in 1..10 |-> 100 * i],
      [i \in 1..10 |-> 100 * (11 - i)],
      [i \in 1..10 |-> 100 * (((i * 7) % 10) + 1)] }

PercentileCalls(maxLen) ==
    { [fn |-> "calculatePercentile", values |-> v, pct |-> q] :
        v \in SeqsUpTo(LatencyValues, maxLen), q \in Percentiles }
    \cup
    { [fn |-> "calculatePercentile", values |-> v, pct |-> q] :
        v \in TenLatencies, q \in { 95, 99 } }

PercentileInit == AppIdle /\ call \in PercentileCalls(MaxValues)

\* the call itself, and calculateMetrics on a snapshot log of these latencies
CallCalculatePercentile ==
    /\ call.fn = "calculatePercentile"
    /\ Return([done |-> TRUE,
               ret |-> calculatePercentile(call.values, call.pct).ret,
               values |-> calculatePercentile(call.values, call.pct).values,
               metrics |-> calculateMetrics(<<>>, MkSnapshots(call.values), <<>>)])

SpecPercentile == PercentileInit /\ [][CallCalculatePercentile]_vars

\* --- determineSystemHealth ---
\* nCritical CRITICAL alerts followed by nWarning WARNING alerts
MkAlertMix(nCritical, nWarning) ==
    MkAlerts(nCritical, "CRITICAL") \o MkAlerts(nWarning, "WARNING")

\* rates on, just above and below the thresholds 0.15, 0.30 and 0.50
HealthRates ==
    { Frac(0, 1), Frac(15, 100), Frac(4, 25), Frac(3, 10), Frac(31, 100),
      Frac(1, 2), Frac(51, 100) }
\* average latencies on and just above 2000 ms and 5000 ms
HealthLatencies == { 0, 2000, 2001, 5000, 5001 }
\* alert lists on and just above 5 CRITICAL alerts and 10 alerts
HealthAlertLists ==
    { MkAlertMix(0, 0), MkAlertMix(5, 5), MkAlertMix(6, 0), MkAlertMix(0, 11),
      MkAlertMix(5, 6), MkAlertMix(6, 5) }

HealthInit ==
    /\ AppIdle
    /\ \E d \in HealthRates, f \in HealthRates, t \in HealthLatencies,
          a \in HealthAlertLists :
          call = [fn |-> "determineSystemHealth", detectionRate |-> d,
                  falsePositiveRate |-> f, avgResponseTime |-> t, alerts |-> a]

CallDetermineSystemHealth ==
    /\ call.fn = "determineSystemHealth"
    /\ Return([done |-> TRUE,
               health |-> determineSystemHealth(call.detectionRate,
                                                call.falsePositiveRate,
                                                call.avgResponseTime, call.alerts)])

SpecHealth == HealthInit /\ [][CallDetermineSystemHealth]_vars

\* --- generateAlerts ---
\* longest transaction list of every kind passed to generateAlerts
MaxAlertTxs == 2

\* risk level, amount and merchant of a transaction: amounts on and above
\* 10000, merchant names with the watched words in other letter cases and
\* inside longer words
AlertTxKinds ==
    { [riskLevel |-> "CRITICAL", amount |-> 10000, merchant |-> "Amazon"],
      [riskLevel |-> "CRITICAL", amount |-> 10001, merchant |-> "Amazon"],
      [riskLevel |-> "MEDIUM", amount |-> 15000, merchant |-> "Starbucks"],
      [riskLevel |-> "LOW", amount |-> 50, merchant |-> "CRYPTO.COM"],
      [riskLevel |-> "LOW", amount |-> 50, merchant |-> "Firewire Ltd"],
      [riskLevel |-> "CRITICAL", amount |-> 20000, merchant |-> "Bank Transfer"],
      [riskLevel |-> "LOW", amount |-> 50, merchant |-> "Starbucks"] }

MkAlertTx(i, kind) ==
    [MkTx(i, [riskLevel |-> kind.riskLevel, status |-> "PENDING"])
        EXCEPT !.amount = kind.amount, !.merchant = kind.merchant]

MkAlertTxs(kinds) == [i \in 1..Len(kinds) |-> MkAlertTx(i, kinds[i])]

\* n ordinary transactions
QuietTxs(n) ==
    MkAlertTxs([i \in 1..n |-> [riskLevel |-> "LOW", amount |-> 50, merchant |-> "Starbucks"]])

\* five transactions: two high-value fraud cases (3rd and 5th) and three
\* watched merchants (2nd, 4th and 5th)
MixedTxs ==
    MkAlertTxs(<< [riskLevel |-> "LOW", amount |-> 50, merchant |-> "Starbucks"],
                  [riskLevel |-> "LOW", amount |-> 50, merchant |-> "CRYPTO.COM"],
                  [riskLevel |-> "CRITICAL", amount |-> 10001, merchant |-> "Amazon"],
                  [riskLevel |-> "LOW", amount |-> 50, merchant |-> "Firewire Ltd"],
                  [riskLevel |-> "CRITICAL", amount |-> 20000, merchant |-> "Bank Transfer"] >>)

\* no metrics supplied: the default {}
NoMetrics == [field \in {} |-> 0]

\* metrics on and just above the thresholds 0.10, 0.20, 3000 ms and 5000 ms
AlertMetrics ==
    { NoMetrics, [detection_rate |-> Frac(11, 100)], [avg_response_time_ms |-> 3001] }
    \cup
    [detection_rate : { Frac(0, 1), Frac(1, 10), Frac(11, 100), Frac(1, 5), Frac(21, 100) },
     false_positive_rate : { Frac(0, 1), Frac(1, 5), Frac(21, 100) },
     avg_response_time_ms : { 0, 3000, 3001, 5000, 5001 }]

\* the metrics paired with every transaction list
FewAlertMetrics ==
    { NoMetrics,
      [detection_rate |-> Frac(21, 100), false_positive_rate |-> Frac(21, 100),
       avg_response_time_ms |-> 3001] }

\* the transaction lists paired with every metrics record
FewAlertTxs == { <<>>, QuietTxs(4), QuietTxs(5), QuietTxs(11), MixedTxs }

AlertCall(txs, metrics) ==
    [fn |-> "generateAlerts", transactions |-> txs, metrics |-> metrics, time |-> 2000000]

AlertsInit ==
    /\ AppIdle
    /\ \/ \E m \in 0..MaxAlertTxs :
             \E ks \in [1..m -> AlertTxKinds], metrics \in FewAlertMetrics :
                call = AlertCall(MkAlertTxs(ks), metrics)
       \/ \E txs \in FewAlertTxs, metrics \in AlertMetrics : call = AlertCall(txs, metrics)

CallGenerateAlerts ==
    /\ call.fn = "generateAlerts"
    /\ Return([done |-> TRUE,
               alerts |-> generateAlerts(call.transactions, call.metrics, call.time)])

SpecAlerts == AlertsInit /\ [][CallGenerateAlerts]_vars

\* --- analyzeTransactionWithGemini ---
\* a flagged transaction with a matched case, and one without
GeminiTxs ==
    { [MkTx(1, [riskLevel |-> "CRITICAL", status |-> "PENDING"])
          EXCEPT !.matchedCaseId = "CASE_002"],
      MkTx(2, [riskLevel |-> "MEDIUM", status |-> "PENDING"]) }

\* the module-level apiKey: unset, or set
ApiKeys == { "", "configured-key" }

\* errors the awaited generateContent call rejects with
ThrownMessages ==
    { "API key not valid. INVALID_ARGUMENT", "429 Too Many Requests",
      "UNAUTHENTICATED", "Failed to fetch", "429 UNAUTHENTICATED" }

\* response texts that are not JSON
GarbledTexts == { "Sorry, I cannot help with that", "{\"isLikelyFraud\":tr" }

\* outcomes of the awaited call: a rejection, a response without text, with
\* empty text, with text that is not JSON, with the text of a JSON value
Outcomes ==
    { [kind |-> "throw", message |-> m] : m \in ThrownMessages }
    \cup
    { [kind |-> "response", hasText |-> FALSE, text |-> ""] }
    \cup
    { [kind |-> "response", hasText |-> TRUE, text |-> t] :
        t \in { "" } \cup GarbledTexts \cup { JSONstringify(v) : v \in JsonValues } }

\* without an API key the service refuses the call
GeminiInit ==
    /\ AppIdle
    /\ \E tx \in GeminiTxs, key \in ApiKeys, outcome \in Outcomes :
          /\ key = "" => outcome.kind = "throw"
          /\ call = [fn |-> "analyzeTransactionWithGemini", transaction |-> tx,
                     apiKey |-> key, outcome |-> outcome]

\* up to the await: the lookup of the matched case and the one call of
\* genAI.models.generateContent
GeminiGenerateContent ==
    /\ call.fn = "analyzeTransactionWithGemini"
    /\ result = [done |-> FALSE]
    /\ result' = [done |-> FALSE, attempts |-> 1,
                  matchedCase |-> matchedCase(call.transaction, INITIAL_KNOWLEDGE_BASE)]
    /\ UNCHANGED << driverVars, call, documentStore >>

\* from the await to the return
GeminiSettle ==
    /\ call.fn = "analyzeTransactionWithGemini"
    /\ ~result.done
    /\ result # [done |-> FALSE]
    /\ result' = [done |-> TRUE, attempts |-> result.attempts,
                  promise |-> analyzeTransactionWithGemini(call.transaction,
                                                           INITIAL_KNOWLEDGE_BASE,
                                                           call.apiKey, call.outcome)]
    /\ UNCHANGED << driverVars, call, documentStore >>

SpecGemini == GeminiInit /\ [][GeminiGenerateContent \/ GeminiSettle]_vars

\* ------------------------------------------------------------------------
\* Calls of the document store accessors
\* ------------------------------------------------------------------------
PolicyIds == { "AML_POL_001", "AML_POL_003", "AML_POL_004", "aml_pol_001", "" }

EntityNames ==
    { "Viktor Petrov", "viktor petrov", "PETROV", "Payment to Viktor Petrov Holdings",
      "Crimson Trading LLC and North Korean Trade Finance Bank",
      "Bank", "an", "", "Hezbollah", "AL-MANSOURI", "John Smith", "Petrov Viktor" }

MerchantNames ==
    { "QuickMart Retail", "quickmart retail", "QUICKMART RETAIL", "QuickMart",
      "QuickMart Retail ", "Suspicious Wire Transfer Co", "Wire Transfer",
      "Unknown Shop", "" }

UserIds ==
    { "USER_VIP_001", "USER_STANDARD_001", "USER_NEW_001", "USER_SUSPENDED_001",
      "USER_UNKNOWN", "user_vip_001" }

\* amounts at, just under and just over the daily limits
ComplianceAmounts == { 0, 1, 2000, 2001, 10000, 10001, 100000, 100001 }

Countries == { "US", "UK", "KP", "CU", "VE", "*", "FR", "us" }

ComplianceCalls(ids, amounts, countries) ==
    { [fn |-> "checkPolicyCompliance", userId |-> id, amount |-> a, country |-> c] :
        id \in ids, a \in amounts, c \in countries }

SanctionCalls(names) == { [fn |-> "checkSanctionStatus", entityName |-> n] : n \in names }

MerchantCalls(names) == { [fn |-> "getMerchantRisk", merchantName |-> n] : n \in names }

AccessorInit ==
    /\ AppIdle
    /\ \/ call \in ComplianceCalls(UserIds, ComplianceAmounts, Countries)
       \/ call \in SanctionCalls(EntityNames)
       \/ call \in MerchantCalls(MerchantNames)

CallCheckPolicyCompliance ==
    /\ call.fn = "checkPolicyCompliance"
    /\ Return([done |-> TRUE,
               ret |-> checkPolicyCompliance(documentStore, call.userId,
                                             call.amount, call.country)])

CallCheckSanctionStatus ==
    /\ call.fn = "checkSanctionStatus"
    /\ Return([done |-> TRUE, ret |-> checkSanctionStatus(documentStore, call.entityName)])

CallGetMerchantRisk ==
    /\ call.fn = "getMerchantRisk"
    /\ Return([done |-> TRUE, ret |-> getMerchantRisk(documentStore, call.merchantName)])

AccessorNext ==
    \/ CallCheckPolicyCompliance
    \/ CallCheckSanctionStatus
    \/ CallGetMerchantRisk

SpecAccessors == AccessorInit /\ [][AccessorNext]_vars

\* --- accessor calls one after another, on the store the earlier ones left ---
\* how many accessor calls a run makes
MaxStoreCalls == 3

AuditEvents ==
    { [eventType |-> e, changedBy |-> "system",
       details |-> [reason |-> "Sanction list match"], approvalStatus |-> a] :
        e \in { "TRANSACTION_BLOCKED", "POLICY_CHANGE" },
        a \in { "undefined", "APPROVED" } }

AuditLimits == { 0, 1, 2, 3, 4, 10 }

StoreInit == AppIdle /\ call = [fn |-> "none"]

\* one accessor call: its arguments, its return value, the store it leaves
StoreCall(args, ret, store) ==
    /\ steps < MaxStoreCalls
    /\ call' = args
    /\ result' = [done |-> TRUE, ret |-> ret]
    /\ documentStore' = store
    /\ now' = now + 1
    /\ steps' = steps + 1
    /\ UNCHANGED << transactions, knowledgeBase, selectedTxId, isPaused,
                    metricsHistoryRef, historyRef, userProfile, txCount,
                    argIntact, lastOp >>

StoreGetAMLPolicy ==
    \E id \in PolicyIds :
        StoreCall([fn |-> "getAMLPolicy", policyId |-> id],
                  getAMLPolicy(documentStore, id), documentStore)

StoreCheckSanctionStatus ==
    \E c \in SanctionCalls({ "PETROV", "John Smith", "Petrov Viktor", "" }) :
        StoreCall(c, checkSanctionStatus(documentStore, c.entityName), documentStore)

StoreGetMerchantRisk ==
    \E c \in MerchantCalls({ "quickmart retail", "QuickMart", "QuickMart Retail ", "" }) :
        StoreCall(c, getMerchantRisk(documentStore, c.merchantName), documentStore)

StoreGetCustomerPolicy ==
    \E id \in UserIds :
        StoreCall([fn |-> "getCustomerPolicy", userId |-> id],
                  getCustomerPolicy(documentStore, id), documentStore)

StoreCheckPolicyCompliance ==
    \E c \in ComplianceCalls(UserIds, { 2001 }, { "US" }) :
        StoreCall(c, checkPolicyCompliance(documentStore, c.userId, c.amount, c.country),
                  documentStore)

StoreLogAuditEvent ==
    \E e \in AuditEvents :
        LET r == logAuditEvent(documentStore, e.eventType, e.changedBy, e.details,
                               e.approvalStatus, now + 1)
        IN  StoreCall([fn |-> "logAuditEvent", event |-> e], r.ret, r.store)

StoreGetAuditLogs ==
    \E limit \in AuditLimits :
        LET r == getAuditLogs(documentStore, limit)
        IN  StoreCall([fn |-> "getAuditLogs", limit |-> limit], r.ret, r.store)

StoreNext ==
    \/ StoreGetAMLPolicy
    \/ StoreCheckSanctionStatus
    \/ StoreGetMerchantRisk
    \/ StoreGetCustomerPolicy
    \/ StoreCheckPolicyCompliance
    \/ StoreLogAuditEvent
    \/ StoreGetAuditLogs

SpecStore == StoreInit /\ [][StoreNext]_vars

\* ------------------------------------------------------------------------
\* App: the metrics effect
\* ------------------------------------------------------------------------
metricsEffectMutFreshMetrics(txs, metricsHistory, dashboardMetrics, time) ==
    calculateMetrics(txs, metricsHistory,
                     generateAlerts(txs, calculateMetrics(txs, metricsHistory, << >>), time))

\* useEffect(..., [transactions]): run after every render in which the
\* transaction list is a new array.  dashboardMetrics is the state of that
\* render, that is what the previous run published (NoMetrics for null)
metricsEffect(txs, metricsHistory, dashboardMetrics, time) ==
    LET alerts == generateAlerts(txs, dashboardMetrics, time)
    IN  calculateMetrics(txs, metricsHistory, alerts)

\* lengths of the quiet runs the dashboard starts from
DashboardRunLengths == { 0, 4 }

\* the metrics on the dashboard after k ticks of a quiet run
RECURSIVE PublishedAfter(_)
PublishedAfter(k) ==
    LET st == QuietRun(k)
    IN  metricsEffect(st.transactions, st.metricsHistoryRef,
                      IF k = 0 THEN NoMetrics ELSE PublishedAfter(k - 1), st.now)

\* here result holds useState<DashboardMetrics | null>, as the effect set it
DashboardInit ==
    /\ StartAfter(DashboardRunLengths)
    /\ call = [fn |-> "none"]
    /\ result = [done |-> TRUE, dashboardMetrics |-> PublishedAfter(txCount)]

\* the effect run that follows a change of the transaction list
RunMetricsEffect ==
    /\ result' = [done |-> TRUE,
                  dashboardMetrics |-> metricsEffect(transactions', metricsHistoryRef',
                                                     result.dashboardMetrics, now')]
    /\ UNCHANGED << call, documentStore >>

TickAndPublish == TickStep /\ RunMetricsEffect

InjectAndPublish == InjectStep /\ RunMetricsEffect

UpdateStatusAndPublish == UpdateStatusStep /\ RunMetricsEffect

DashboardNext ==
    \/ TickAndPublish
    \/ InjectAndPublish
    \/ UpdateStatusAndPublish
    \/ handleAddToKnowledgeBase
    \/ togglePause

SpecDashboard == DashboardInit /\ [][DashboardNext]_vars

\* ------------------------------------------------------------------------
\* Properties of the driver
\* ------------------------------------------------------------------------
\* the step just taken was a tick that scored a LOW transaction
LowTickStep == lastOp' = "tick" /\ transactions'[1].riskLevel = "LOW"

\* C1: the transaction list never holds more than 50 entries, after any
\* sequence of ticks, manual injections and status updates; eviction is
\* done by the operation that appends.
C1_TransactionsCapped == Len(transactions) <= 50

\* C2: the user profile (history, mean, stdDev) changes only in a step that
\* scored a transaction with riskLevel LOW; a MEDIUM or CRITICAL tick, an
\* injection, a status update and a knowledge-base append leave it unchanged.
C2_ProfileChangesOnlyOnLowTick ==
    [][(userProfile' # userProfile \/ historyRef' # historyRef) => LowTickStep]_vars

\* a LOW tick has just extended the profile
C2_Witness ==
    /\ steps > 0
    /\ lastOp = "tick"
    /\ transactions[1].riskLevel = "LOW"
    /\ userProfile.history[Len(userProfile.history)] = transactions[1].amount

\* h2 is h followed by a, cut to its most recent 50 elements
IsWindowOf(h2, h, a) ==
    /\ Len(h2) = Min(Len(h) + 1, 50)
    /\ h2[Len(h2)] = a
    /\ \A i \in 1..(Len(h2) - 1) : h2[i] = h[Len(h) - (Len(h2) - 1) + i]

\* C3: a profile update with history h and amount a yields the most recent
\* 50 elements of h followed by a, in order; 1 <= length(history) <= 50 in
\* every reachable state; the profile state's history is the history its
\* statistics were computed from.
C3_RollingWindow ==
    /\ [](/\ 1 <= Len(historyRef) /\ Len(historyRef) <= 50
          /\ userProfile.history = historyRef
          /\ userProfile.mean = calculateStats(historyRef).mean
          /\ userProfile.stdDev = calculateStats(historyRef).stdDev)
    /\ [][LowTickStep =>
            IsWindowOf(historyRef', historyRef, transactions'[1].amount)]_vars

\* a LOW tick on a full window has evicted the oldest amount
C3_Witness ==
    /\ steps > 0
    /\ lastOp = "tick"
    /\ transactions[1].riskLevel = "LOW"
    /\ Len(historyRef) = 50
    /\ txCount > 50
    /\ historyRef[50] = transactions[1].amount

\* log2 is log followed by one new snapshot, cut to its most recent 1000
IsLogOf(log2, log, time, isFraud) ==
    /\ Len(log2) = Min(Len(log) + 1, 1000)
    /\ log2[Len(log2)].timestamp = time
    /\ log2[Len(log2)].isFraud = isFraud
    /\ log2[Len(log2)].responseTime \in ResponseTimes
    /\ \A i \in 1..(Len(log2) - 1) : log2[i] = log[Len(log) - (Len(log2) - 1) + i]

\* C4: recordMetricsSnapshot returns a log of length min(|history|+1, 1000)
\* whose last entry is the new snapshot, preceded by the most recent entries
\* of history in order; it does not mutate its argument; the snapshot log of
\* the driver never exceeds 1000 entries.
C4_SnapshotLog ==
    /\ [](Len(metricsHistoryRef) <= 1000 /\ argIntact)
    /\ [][lastOp' = "tick" =>
            IsLogOf(metricsHistoryRef', metricsHistoryRef, now',
                    transactions'[1].riskLevel = "CRITICAL")]_vars

\* a tick on a full log has dropped the oldest snapshot
C4_Witness ==
    /\ lastOp = "tick"
    /\ Len(metricsHistoryRef) = 1000
    /\ txCount > 1000
    /\ metricsHistoryRef[1].timestamp = 2 * TICK_MS

\* C15: handleAddToKnowledgeBase appends: the list grows by one, every
\* existing entry keeps its content and position, and the new last entry has
\* id CASE_<transaction id>, the transaction's narrative and merchant, the
\* fixed analyst-feedback type and the pending vectorId; no step of any
\* operation removes or rewrites an entry.
C15_KnowledgeBaseAppendOnly ==
    [][/\ Len(knowledgeBase') >= Len(knowledgeBase)
       /\ \A i \in DOMAIN knowledgeBase : knowledgeBase'[i] = knowledgeBase[i]
       /\ lastOp' # "addToKnowledgeBase" => knowledgeBase' = knowledgeBase
       /\ lastOp' = "addToKnowledgeBase" =>
             /\ Len(knowledgeBase') = Len(knowledgeBase) + 1
             /\ \E i \in DOMAIN transactions :
                   knowledgeBase'[Len(knowledgeBase')] =
                       [id |-> "CASE_" \o transactions[i].id,
                        narrative |-> transactions[i].narrative,
                        merchant |-> transactions[i].merchant,
                        type |-> "Confirmed Fraud (Analyst Feedback)",
                        vectorId |-> "pending_vectorization"]]_vars

\* the case of the newest transaction has just been appended to the three
\* seed cases
C15_Witness ==
    /\ lastOp = "addToKnowledgeBase"
    /\ Len(knowledgeBase) = 4
    /\ SubSeq(knowledgeBase, 1, 3) = INITIAL_KNOWLEDGE_BASE
    /\ transactions # <<>>
    /\ knowledgeBase[4].id = "CASE_" \o transactions[1].id
    /\ knowledgeBase[4].narrative = transactions[1].narrative

\* C16: no two entries of the knowledge base share an id, in every reachable
\* state, also after feedback was submitted twice for one transaction.
C16_CaseIdsUnique ==
    \A i, j \in DOMAIN knowledgeBase :
        knowledgeBase[i].id = knowledgeBase[j].id => i = j

\* C17: handleUpdateStatus(id, status) sets the status of the transactions
\* with that id and nothing else: every other transaction, the order and the
\* length of the list are unchanged, and it changes nothing when no
\* transaction has that id; no step of any operation changes the riskLevel or
\* any field but status of a transaction that stays in the list.
C17_StatusUpdateFrame ==
    [][/\ lastOp' = "updateStatus" =>
             \E id \in { transactions[i].id : i \in DOMAIN transactions } \cup { "TX_unknown" },
                status \in { "ALLOWED", "BLOCKED", "FLAGGED" } :
                /\ Len(transactions') = Len(transactions)
                /\ \A i \in DOMAIN transactions :
                      /\ transactions[i].id # id => transactions'[i] = transactions[i]
                      /\ transactions[i].id = id =>
                            /\ transactions'[i].status = status
                            /\ [transactions'[i] EXCEPT !.status = "PENDING"] =
                                   [transactions[i] EXCEPT !.status = "PENDING"]
       /\ \A i \in DOMAIN transactions, j \in DOMAIN transactions' :
             transactions'[j].id = transactions[i].id =>
                 [transactions'[j] EXCEPT !.status = "PENDING"] =
                     [transactions[i] EXCEPT !.status = "PENDING"]]_vars

\* a status update has blocked the second transaction of the list and left
\* the newest one pending
C17_Witness ==
    /\ lastOp = "updateStatus"
    /\ Len(transactions) >= 2
    /\ transactions[1].status = "PENDING"
    /\ transactions[2].status = "BLOCKED"

\* C18: the status of a transaction only moves from PENDING to ALLOWED,
\* BLOCKED or FLAGGED: once it has left PENDING no status update changes it
\* again.
C18_StatusLeavesPendingOnce ==
    [][\A i \in DOMAIN transactions, j \in DOMAIN transactions' :
          (/\ transactions'[j].id = transactions[i].id
           /\ transactions'[j].status # transactions[i].status) =>
              /\ transactions[i].status = "PENDING"
              /\ transactions'[j].status \in { "ALLOWED", "BLOCKED", "FLAGGED" }]_vars

\* C25: every step that adds a transaction to the list, a tick or an
\* injection, appends exactly one snapshot for it, with isFraud true iff the
\* transaction is CRITICAL; so the snapshot log always holds as many
\* snapshots as transactions were generated, up to the cap of 1000
C25_OneSnapshotPerTransaction ==
    /\ [](Len(metricsHistoryRef) = Min(txCount, maxHistorySize))
    /\ [][txCount' = txCount + 1 =>
            IsLogOf(metricsHistoryRef', metricsHistoryRef, now',
                    transactions'[1].riskLevel = "CRITICAL")]_vars

C28_PausedStreamIsQuiet ==
    [][ /\ (/\ isPaused
            /\ << transactions, metricsHistoryRef, historyRef, userProfile >>'
                 # << transactions, metricsHistoryRef, historyRef, userProfile >>)
           => lastOp' \in { "inject", "updateStatus" }
        /\ isPaused => lastOp' # "tick"
        /\ lastOp' = "inject" =>
              /\ isPaused'
              /\ transactions'[1].id = TxId(txCount')
              /\ selectedTxId' = transactions'[1].id
              /\ Len(transactions') = Len(transactions) + 1 ]_vars

\* an injection into a non-empty list of a running stream
C28_Witness ==
    /\ lastOp = "inject"
    /\ isPaused
    /\ Len(transactions) >= 2
    /\ selectedTxId = transactions[1].id
    /\ transactions[2].id # selectedTxId

\* ------------------------------------------------------------------------
\* Properties of the service functions
\* ------------------------------------------------------------------------
\* C5: every transaction returned by the scorer has the riskLevel the ordered
\* decision table gives for its own zScore and signatureMatchScore (CRITICAL
\* if |z| > 3 or score >= 0.85, else MEDIUM if |z| > 1.5 or score >= 0.5, else
\* LOW), and status PENDING.
C5_RiskLevelMatchesTable ==
    result.done =>
        LET tx == result.tx
            z == tx.zScore
            g == tx.signatureMatchScore
        IN  /\ tx.riskLevel =
                 (IF z > 300 \/ z < -300 \/ g >= 85 THEN "CRITICAL"
                  ELSE IF z > 150 \/ z < -150 \/ g >= 50 THEN "MEDIUM"
                  ELSE "LOW")
            /\ tx.status = "PENDING"

\* a transaction exactly on both thresholds: z = 3.00 and score = 0.50
C5_Witness ==
    /\ result.done
    /\ result.tx.zScore = 300
    /\ result.tx.signatureMatchScore = 50
    /\ result.tx.riskLevel = "MEDIUM"

\* the fraction f has the value num/den, or 0 when den is 0
RateIs(f, num, den) ==
    /\ f.d > 0
    /\ IF den = 0 THEN f.n = 0 ELSE f.n * den = num * f.d

\* C6: fraud_detected counts riskLevel CRITICAL or status BLOCKED,
\* legitimate_approved counts status ALLOWED, pending_review counts status
\* PENDING or ANALYZING, transactions_today is the list length, and
\* detection_rate is fraud_detected / transactions_today, 0 for an empty list.
C6_MetricsCounts ==
    result.done =>
        LET txs == call.transactions
            m == result.metrics
            fraud == Cardinality({ i \in DOMAIN txs :
                         txs[i].riskLevel = "CRITICAL" \/ txs[i].status = "BLOCKED" })
        IN  /\ m.fraud_detected = fraud
            /\ m.legitimate_approved =
                  Cardinality({ i \in DOMAIN txs : txs[i].status = "ALLOWED" })
            /\ m.pending_review =
                  Cardinality({ i \in DOMAIN txs :
                                  txs[i].status \in { "PENDING", "ANALYZING" } })
            /\ m.transactions_today = Len(txs)
            /\ RateIs(m.detection_rate, fraud, Len(txs))

\* three transactions: CRITICAL and ALLOWED, not CRITICAL but BLOCKED, PENDING
C6_Witness ==
    /\ result.done
    /\ Len(call.transactions) = 3
    /\ result.metrics.fraud_detected = 2
    /\ result.metrics.legitimate_approved = 1
    /\ result.metrics.pending_review = 1
    /\ \E i \in 1..3 : /\ call.transactions[i].status = "BLOCKED"
                       /\ call.transactions[i].riskLevel = "LOW"

\* C7: on an empty transaction list, empty snapshot log and empty alert list
\* every count, rate and latency is zero (no division by zero) and
\* system_health is NORMAL.
C7_MetricsOfNothing ==
    (/\ result.done
     /\ call.transactions = <<>>
     /\ call.metricsHistory = <<>>
     /\ call.alerts = <<>>) =>
        LET m == result.metrics
        IN  /\ m.transactions_today = 0 /\ m.fraud_detected = 0
            /\ m.legitimate_approved = 0 /\ m.pending_review = 0
            /\ \A r \in { m.detection_rate, m.model_accuracy, m.model_precision,
                          m.model_recall, m.false_positive_rate,
                          m.false_negative_rate } : r.n = 0 /\ r.d > 0
            /\ m.avg_response_time_ms = 0 /\ m.max_response_time_ms = 0
            /\ m.p95_latency_ms = 0 /\ m.p99_latency_ms = 0
            /\ m.throughput_txn_per_sec = 0
            /\ m.active_alerts = <<>>
            /\ m.system_health = "NORMAL"

C7_Witness ==
    /\ result.done
    /\ call.transactions = <<>>
    /\ call.metricsHistory = <<>>
    /\ call.alerts = <<>>
    /\ result.metrics.system_health = "NORMAL"

\* C8: calculateMetrics gives the same counts, detection_rate, model rates
\* and system_health for a transaction list and for any reordering of it;
\* ten transactions of which exactly three are CRITICAL and BLOCKED give
\* detection_rate 3/10 in every order.
C8_OrderInvariant ==
    result.done =>
        LET a == result.metrics
            b == result.reordered
        IN  /\ \A f \in { "transactions_today", "fraud_detected", "detection_rate",
                          "legitimate_approved", "pending_review", "model_accuracy",
                          "model_precision", "model_recall", "false_positive_rate",
                          "false_negative_rate", "system_health" } : a[f] = b[f]
            /\ Len(call.transactions) = 10 =>
                  /\ RateIs(a.detection_rate, 3, 10)
                  /\ RateIs(b.detection_rate, 3, 10)

\* the ten transactions with the three fraud cases moved to the end
C8_Witness ==
    /\ result.done
    /\ Len(call.reordered) = 10
    /\ \A i \in 8..10 : call.reordered[i].riskLevel = "CRITICAL"
    /\ \A i \in 1..3 : call.transactions[i].riskLevel = "CRITICAL"
    /\ result.reordered.detection_rate = [n |-> 3, d |-> 10]

\* the k-th smallest element of values (k = 1 for the smallest)
Ranked(values, k) ==
    CHOOSE v \in { values[i] : i \in DOMAIN values } :
        /\ Cardinality({ i \in DOMAIN values : values[i] < v }) < k
        /\ k <= Cardinality({ i \in DOMAIN values : values[i] <= v })

\* the rank calculatePercentile reads: ceil(n * p), at least 1
NearestRank(n, pct) ==
    LET c == CHOOSE r \in 0..n : r * 100 >= n * pct /\ (r - 1) * 100 < n * pct
    IN  IF c < 1 THEN 1 ELSE c

IsTenToHundred(values) ==
    Len(values) = 10 /\ \A k \in 1..10 : \E i \in 1..10 : values[i] = 100 * k

\* what C9 says of any call, but for the value returned for a non-empty list
PercentileFrame ==
    /\ call.values = <<>> => result.ret = 0
    /\ result.values = call.values
    /\ result.metrics.p95_latency_ms <= result.metrics.p99_latency_ms
    /\ IsTenToHundred(call.values) =>
          /\ result.ret = 100
          /\ result.metrics.p95_latency_ms = 100
          /\ result.metrics.p99_latency_ms = 100

\* C9 as stated: calculatePercentile returns 0 for an empty list and
\* otherwise the element at index ceil(n*p) - 1 (at least 0) of the sorted
\* values, whatever the input order, without mutating the input; hence
\* p95 <= p99 <= max_response_time; 10, 20, ..., 100 give p95 = p99 = 100.
C9_PercentileIsElement ==
    result.done =>
        /\ PercentileFrame
        /\ call.values # <<>> =>
              result.ret * RT_SCALE =
                  Ranked(call.values, NearestRank(Len(call.values), call.pct))
        /\ result.metrics.p99_latency_ms * RT_SCALE <= result.metrics.max_response_time_ms

\* r is x / RT_SCALE rounded to the nearest integer, halves upward
IsRounded(r, x) ==
    /\ 2 * RT_SCALE * r - RT_SCALE <= 2 * x
    /\ 2 * x < 2 * RT_SCALE * r + RT_SCALE

\* C9 as amended: calculatePercentile returns 0 for an empty list and
\* otherwise the element at index ceil(n*p) - 1 (at least 0) of the sorted
\* values rounded to the nearest integer, whatever the input order, without
\* mutating the input; hence p95 <= p99 <= max_response_time rounded to the
\* nearest integer; 10, 20, ..., 100 give p95 = p99 = 100.
C9_PercentileIsRoundedElement ==
    result.done =>
        /\ PercentileFrame
        /\ call.values # <<>> =>
              /\ IsRounded(result.ret,
                           Ranked(call.values, NearestRank(Len(call.values), call.pct)))
              /\ \E r \in 0..result.metrics.max_response_time_ms :
                    /\ IsRounded(r, result.metrics.max_response_time_ms)
                    /\ result.metrics.p99_latency_ms <= r

\* an unsorted list whose selected element, 0.5 ms, is returned as 1
C9_Witness ==
    /\ result.done
    /\ call.values = << 16, 4, 5 >>
    /\ call.pct = 50
    /\ result.ret = 1

\* C10: with TP = fraud cases BLOCKED, FP = fraud cases ALLOWED, FN = ALLOWED
\* and CRITICAL, TN = ALLOWED and LOW: precision = TP/(TP+FP), recall =
\* TP/(TP+FN), accuracy = (TP+TN)/total, false_positive_rate = FP/(FP+TN),
\* false_negative_rate = FN/(FN+TP), each 0 when its denominator is 0, and
\* each of the five within [0,1].
C10_ModelRates ==
    result.done =>
        LET txs == call.transactions
            m == result.metrics
            Fraud == { i \in DOMAIN txs :
                         txs[i].riskLevel = "CRITICAL" \/ txs[i].status = "BLOCKED" }
            Allowed == { i \in DOMAIN txs : txs[i].status = "ALLOWED" }
            TP == Cardinality({ i \in Fraud : txs[i].status = "BLOCKED" })
            FP == Cardinality(Fraud \cap Allowed)
            FN == Cardinality({ i \in Allowed : txs[i].riskLevel = "CRITICAL" })
            TN == Cardinality({ i \in Allowed : txs[i].riskLevel = "LOW" })
        IN  /\ RateIs(m.model_precision, TP, TP + FP)
            /\ RateIs(m.model_recall, TP, TP + FN)
            /\ RateIs(m.model_accuracy, TP + TN, Len(txs))
            /\ RateIs(m.false_positive_rate, FP, FP + TN)
            /\ RateIs(m.false_negative_rate, FN, FN + TP)
            /\ \A r \in { m.model_precision, m.model_recall, m.model_accuracy,
                          m.false_positive_rate, m.false_negative_rate } :
                  0 <= r.n /\ r.n <= r.d

\* one true positive, one false positive, one true negative
C10_Witness ==
    /\ result.done
    /\ Len(call.transactions) = 3
    /\ result.metrics.model_precision = [n |-> 1, d |-> 2]
    /\ result.metrics.model_accuracy = [n |-> 2, d |-> 3]
    /\ result.metrics.false_positive_rate = [n |-> 1, d |-> 2]

\* C11: system_health is CRITICAL iff more than 5 alerts are CRITICAL or
\* FPR > 0.30 or avgLatency > 5000 or detectionRate > 0.50; otherwise WARNING
\* iff there are more than 10 alerts or FPR > 0.15 or avgLatency > 2000 or
\* detectionRate > 0.30; otherwise NORMAL.  A value exactly on a threshold
\* does not trigger it, and a CRITICAL condition wins over a WARNING one.
C11_HealthFirstMatch ==
    result.done =>
        LET d == call.detectionRate
            f == call.falsePositiveRate
            t == call.avgResponseTime
            nCritical == Cardinality({ i \in DOMAIN call.alerts :
                                         call.alerts[i].severity = "CRITICAL" })
            critical == \/ nCritical > 5
                        \/ 10 * f.n > 3 * f.d
                        \/ t > 5000
                        \/ 2 * d.n > d.d
            warning == \/ Len(call.alerts) > 10
                       \/ 100 * f.n > 15 * f.d
                       \/ t > 2000
                       \/ 10 * d.n > 3 * d.d
        IN  /\ result.health = "CRITICAL" <=> critical
            /\ result.health = "WARNING" <=> (~critical /\ warning)
            /\ result.health = "NORMAL" <=> (~critical /\ ~warning)

\* every input exactly on its WARNING threshold, but the latency, which is
\* exactly on its CRITICAL threshold: WARNING
C11_Witness ==
    /\ result.done
    /\ call.detectionRate = Frac(3, 10)
    /\ call.falsePositiveRate = Frac(15, 100)
    /\ call.avgResponseTime = 5000
    /\ Len(call.alerts) = 10
    /\ result.health = "WARNING"

\* the positions of the alerts with the given title
AlertsTitled(alerts, title) == { i \in DOMAIN alerts : alerts[i].title = title }

\* C12: generateAlerts gives a detection-rate alert iff detection_rate > 0.10
\* (CRITICAL if > 0.20, else WARNING), a false-positive alert (WARNING) iff
\* false_positive_rate > 0.20, a performance alert iff avg_response_time_ms
\* > 3000 (CRITICAL if > 5000, else WARNING), each rule on its own; with no
\* metrics supplied none of the three is produced.
C12_MetricAlertRules ==
    result.done =>
        LET m == call.metrics
            zero == [n |-> 0, d |-> 1]
            d == IF "detection_rate" \in DOMAIN m THEN m.detection_rate ELSE zero
            f == IF "false_positive_rate" \in DOMAIN m THEN m.false_positive_rate ELSE zero
            t == IF "avg_response_time_ms" \in DOMAIN m THEN m.avg_response_time_ms ELSE 0
            det == AlertsTitled(result.alerts, "Elevated Fraud Detection Rate")
            fpr == AlertsTitled(result.alerts, "High False Positive Rate")
            perf == AlertsTitled(result.alerts, "System Performance Degradation")
        IN  /\ det # {} <=> 10 * d.n > d.d
            /\ \A i \in det :
                  result.alerts[i].severity =
                      (IF 5 * d.n > d.d THEN "CRITICAL" ELSE "WARNING")
            /\ fpr # {} <=> 5 * f.n > f.d
            /\ \A i \in fpr : result.alerts[i].severity = "WARNING"
            /\ perf # {} <=> t > 3000
            /\ \A i \in perf :
                  result.alerts[i].severity =
                      (IF t > 5000 THEN "CRITICAL" ELSE "WARNING")
            /\ DOMAIN m = {} => det = {} /\ fpr = {} /\ perf = {}

\* detection_rate exactly 0.20 (WARNING), false_positive_rate 0.21, average
\* latency exactly 5000 ms (WARNING)
C12_Witness ==
    /\ result.done
    /\ call.metrics = [detection_rate |-> Frac(1, 5), false_positive_rate |-> Frac(21, 100),
                       avg_response_time_ms |-> 5000]
    /\ \E i, j, k \in DOMAIN result.alerts :
          /\ result.alerts[i].title = "Elevated Fraud Detection Rate"
          /\ result.alerts[i].severity = "WARNING"
          /\ result.alerts[j].title = "High False Positive Rate"
          /\ result.alerts[k].title = "System Performance Degradation"
          /\ result.alerts[k].severity = "WARNING"

\* the merchant names of the explored transactions that contain crypto, wire
\* or transfer in some letter case
WatchedMerchants == { "CRYPTO.COM", "Firewire Ltd", "Bank Transfer" }

\* C13: a CRITICAL high-value alert is produced iff some transaction is
\* CRITICAL with amount > 10000, and it references the first such transaction
\* of the list; a WARNING merchant alert is produced iff some merchant name
\* contains crypto, wire or transfer in any letter case, and it references
\* the first such transaction; a WARNING velocity alert is produced iff the
\* list has at least 5 transactions.
C13_TransactionAlertRules ==
    result.done =>
        LET txs == call.transactions
            HighValue == { i \in DOMAIN txs :
                             txs[i].riskLevel = "CRITICAL" /\ txs[i].amount > 10000 }
            Watched == { i \in DOMAIN txs : txs[i].merchant \in WatchedMerchants }
            high == AlertsTitled(result.alerts, "High-Value Fraud Detected")
            merch == AlertsTitled(result.alerts, "High-Risk Merchant Activity")
            velo == AlertsTitled(result.alerts, "Abnormal Transaction Velocity")
        IN  /\ high # {} <=> HighValue # {}
            /\ \A a \in high :
                  /\ result.alerts[a].severity = "CRITICAL"
                  /\ \E i \in HighValue :
                        /\ \A j \in HighValue : i <= j
                        /\ result.alerts[a].related_transaction_id = txs[i].id
            /\ merch # {} <=> Watched # {}
            /\ \A a \in merch :
                  /\ result.alerts[a].severity = "WARNING"
                  /\ \E i \in Watched :
                        /\ \A j \in Watched : i <= j
                        /\ result.alerts[a].related_transaction_id = txs[i].id
            /\ velo # {} <=> Len(txs) >= 5
            /\ \A a \in velo : result.alerts[a].severity = "WARNING"

\* two high-value fraud cases and three watched merchants among five
\* transactions: the 3rd and the 2nd are referenced
C13_Witness ==
    /\ result.done
    /\ call.transactions = MixedTxs
    /\ \E i, j, k \in DOMAIN result.alerts :
          /\ result.alerts[i].title = "High-Value Fraud Detected"
          /\ result.alerts[i].related_transaction_id = TxId(3)
          /\ result.alerts[j].title = "High-Risk Merchant Activity"
          /\ result.alerts[j].related_transaction_id = TxId(2)
          /\ result.alerts[k].title = "Abnormal Transaction Velocity"

\* C14: the list returned by one call of generateAlerts is ordered by
\* severity rank ascending (CRITICAL, then WARNING, then INFO), equal
\* severities by timestamp descending, and holds no two alerts with the same
\* condition and related transaction.
C14_AlertsSortedNoDuplicates ==
    result.done =>
        LET as == result.alerts
            rank(i) == IF as[i].severity = "CRITICAL" THEN 0
                       ELSE IF as[i].severity = "WARNING" THEN 1 ELSE 2
        IN  /\ \A i, j \in DOMAIN as :
                  i < j => \/ rank(i) < rank(j)
                           \/ rank(i) = rank(j) /\ as[i].timestamp >= as[j].timestamp
            /\ \A i, j \in DOMAIN as :
                  (/\ as[i].title = as[j].title
                   /\ as[i].related_transaction_id = as[j].related_transaction_id) => i = j

\* all six rules fire; the CRITICAL alerts pushed 3rd and 4th come first,
\* newest first, and the WARNING alerts follow, newest first
C14_Witness ==
    /\ result.done
    /\ Len(result.alerts) = 6
    /\ result.alerts[1].title = "High-Value Fraud Detected"
    /\ result.alerts[2].title = "System Performance Degradation"
    /\ result.alerts[3].title = "Elevated Fraud Detection Rate"
    /\ result.alerts[4].title = "Abnormal Transaction Velocity"
    /\ result.alerts[5].title = "High False Positive Rate"
    /\ result.alerts[6].title = "High-Risk Merchant Activity"

\* the awaited call failed: it threw, or the response had no text, empty
\* text or text that is not JSON, or no API key is configured
AdvisoryFailed ==
    \/ call.apiKey = ""
    \/ call.outcome.kind = "throw"
    \/ /\ call.outcome.kind = "response"
       /\ \/ ~call.outcome.hasText
          \/ call.outcome.text = ""
          \/ call.outcome.text \in GarbledTexts

\* C19: when the one attempt of the advisory call throws, returns empty text
\* or text that is not JSON, or the API key is unconfigured, the promise of
\* analyzeTransactionWithGemini resolves, never rejects, to the fallback
\* isLikelyFraud false, confidence 0, recommendedAction HOLD, keyRiskFactors
\* [System Error], with a failure reasoning, and the call is not retried.
C19_FallbackOnFailure ==
    result.done =>
        /\ result.attempts = 1
        /\ result.promise.settled = "resolved"
        /\ AdvisoryFailed =>
              /\ result.promise.value.isLikelyFraud = FALSE
              /\ result.promise.value.confidence = 0
              /\ result.promise.value.recommendedAction = "HOLD"
              /\ result.promise.value.keyRiskFactors = << "System Error" >>
              /\ result.promise.value.reasoning \in
                    { "AI Analysis unavailable. Check API Key.",
                      "API Key not configured. See console for details.",
                      "Invalid or expired API Key.",
                      "API rate limit exceeded. Try again later.",
                      "API authentication failed. Check your key." }

\* a response cut off in the middle of its JSON text has been answered with
\* the fallback
C19_Witness ==
    /\ result.done
    /\ call.outcome.kind = "response"
    /\ call.outcome.text = "{\"isLikelyFraud\":tr"
    /\ result.attempts = 1
    /\ result.promise.settled = "resolved"
    /\ result.promise.value.recommendedAction = "HOLD"
    /\ result.promise.value.reasoning = "AI Analysis unavailable. Check API Key."

\* C20: every AnalysisResult returned by analyzeTransactionWithGemini, from
\* the parsed response as well as from the fallback, has recommendedAction
\* BLOCK, ALLOW or HOLD and a confidence from 0 to 100, whatever well-formed
\* JSON the collaborator sent.
C20_AnalysisResultInRange ==
    (result.done /\ result.promise.settled = "resolved") =>
        /\ result.promise.value.recommendedAction \in { "BLOCK", "ALLOW", "HOLD" }
        /\ 0 <= result.promise.value.confidence
        /\ result.promise.value.confidence <= 100

\* the policy of the user of a checkPolicyCompliance call, read off the table
PolicyOf(userId) ==
    CHOOSE p \in { customerPolicies[i] : i \in DOMAIN customerPolicies } : p.user_id = userId

HasPolicy(userId) == \E i \in DOMAIN customerPolicies : customerPolicies[i].user_id = userId

\* how often a message occurs in the violations returned
Occurrences(message) ==
    Cardinality({ i \in DOMAIN result.ret.violations : result.ret.violations[i] = message })

\* C21: for a user with a policy the violations list holds one entry for
\* each of the four conditions that holds and nothing else, whatever the
\* other conditions say; compliant is true exactly when the list is empty
C21_ComplianceIndependentConditions ==
    (result.done /\ call.fn = "checkPolicyCompliance" /\ HasPolicy(call.userId)) =>
        LET p == PolicyOf(call.userId)
            overLimit == call.amount > p.daily_limit
            blocked == call.country \in { p.blocked_countries[i] : i \in DOMAIN p.blocked_countries }
            notAllowed == /\ p.allowed_countries # << >>
                          /\ call.country \notin { p.allowed_countries[i] : i \in DOMAIN p.allowed_countries }
            failedKyc == p.compliance_status = "FAILED_KYC"
            B(c) == IF c THEN 1 ELSE 0
        IN  /\ Occurrences("Exceeds daily limit of $" \o ToString(p.daily_limit)) = B(overLimit)
            /\ Occurrences("Transaction to blocked country: " \o call.country) = B(blocked)
            /\ Occurrences("Country " \o call.country \o " not in allowed list") = B(notAllowed)
            /\ Occurrences("Customer failed KYC verification") = B(failedKyc)
            /\ Len(result.ret.violations) = B(overLimit) + B(blocked) + B(notAllowed) + B(failedKyc)
            /\ result.ret.compliant = (result.ret.violations = << >>)
            /\ (p.daily_limit = 0 /\ call.amount = 1) => ~result.ret.compliant
            /\ (call.amount = p.daily_limit) =>
                   Occurrences("Exceeds daily limit of $" \o ToString(p.daily_limit)) = 0

\* three conditions hold at once, and all three are reported
C21_Witness ==
    /\ result.done /\ call.fn = "checkPolicyCompliance"
    /\ call.userId = "USER_NEW_001" /\ call.amount = 2001 /\ call.country = "CU"
    /\ Len(result.ret.violations) = 3

\* queries that name no sanctioned entity, in either direction of containment
UnlistedEntityNames == { "John Smith", "Petrov Viktor" }

\* queries that are no merchant's whole name, whatever the case
UnlistedMerchantNames == { "QuickMart", "QuickMart Retail ", "Unknown Shop", "" }

\* C22: a lookup whose id or name is not in its table returns undefined and
\* leaves every table as it was; checkPolicyCompliance for a user without a
\* policy returns a result value
C22_LookupMissIsAbsent ==
    [][ /\ (/\ call'.fn = "getAMLPolicy"
            /\ call'.policyId \notin { documentStore.policies[i].id :
                                         i \in DOMAIN documentStore.policies })
           => (result'.ret = Undefined /\ documentStore' = documentStore)
        /\ (/\ call'.fn = "getCustomerPolicy"
            /\ call'.userId \notin { documentStore.customer_policies[i].user_id :
                                       i \in DOMAIN documentStore.customer_policies })
           => (result'.ret = Undefined /\ documentStore' = documentStore)
        /\ (call'.fn = "getMerchantRisk" /\ call'.merchantName \in UnlistedMerchantNames)
           => (result'.ret = Undefined /\ documentStore' = documentStore)
        /\ (call'.fn = "checkSanctionStatus" /\ call'.entityName \in UnlistedEntityNames)
           => (result'.ret = Undefined /\ documentStore' = documentStore)
        /\ (/\ call'.fn = "checkPolicyCompliance"
            /\ call'.userId \notin { documentStore.customer_policies[i].user_id :
                                       i \in DOMAIN documentStore.customer_policies })
           => (/\ result'.done
               /\ DOMAIN result'.ret = { "compliant", "violations" }
               /\ result'.ret.compliant \in BOOLEAN
               /\ documentStore' = documentStore) ]_vars

\* a customer policy was asked for under an id no policy has, after the
\* audit log had grown
C22_Witness ==
    /\ result.done /\ call.fn = "getCustomerPolicy" /\ call.userId = "USER_UNKNOWN"
    /\ result.ret = Undefined
    /\ Len(documentStore.audit_logs) > 3

\* the first sanctioned entity, in list order, whose name contains the
\* query or is contained in it, case ignored; worked out by hand
ExpectedSanction(entityName) ==
    CASE entityName \in { "", "Crimson Trading LLC and North Korean Trade Finance Bank" }
            -> "SANC_001"
      [] entityName \in { "Viktor Petrov", "viktor petrov", "PETROV",
                          "Payment to Viktor Petrov Holdings" }
            -> "SANC_002"
      [] entityName \in { "Bank", "an" } -> "SANC_003"
      [] entityName = "Hezbollah" -> "SANC_004"
      [] entityName = "AL-MANSOURI" -> "SANC_005"
      [] OTHER -> "none"

\* the merchant whose whole name is the query, case ignored
ExpectedMerchant(merchantName) ==
    CASE merchantName \in { "QuickMart Retail", "quickmart retail", "QUICKMART RETAIL" }
            -> "MERCH_001"
      [] merchantName = "Suspicious Wire Transfer Co" -> "MERCH_005"
      [] OTHER -> "none"

\* C23: checkSanctionStatus returns the first entity in list order whose
\* lower-cased name contains the lower-cased query or is contained in it,
\* and undefined exactly when there is none; getMerchantRisk returns the
\* merchant whose whole name equals the query up to case, and no other
C23_SanctionAndMerchantMatching ==
    /\ (result.done /\ call.fn = "checkSanctionStatus") =>
          IF ExpectedSanction(call.entityName) = "none"
          THEN result.ret = Undefined
          ELSE /\ result.ret.defined
               /\ result.ret.value.entity_id = ExpectedSanction(call.entityName)
               /\ \E i \in DOMAIN sanctionLists : result.ret.value = sanctionLists[i]
    /\ (result.done /\ call.fn = "getMerchantRisk") =>
          IF ExpectedMerchant(call.merchantName) = "none"
          THEN result.ret = Undefined
          ELSE /\ result.ret.defined
               /\ result.ret.value.id = ExpectedMerchant(call.merchantName)
               /\ \E i \in DOMAIN merchantRatings : result.ret.value = merchantRatings[i]

\* a query that contains the names of two entities gets the earlier one
C23_Witness ==
    /\ result.done /\ call.fn = "checkSanctionStatus"
    /\ call.entityName = "Crimson Trading LLC and North Korean Trade Finance Bank"
    /\ result.ret.defined /\ result.ret.value.entity_id = "SANC_001"

\* the entries of a list of audit log entries
Entries(logs) == { logs[i] : i \in DOMAIN logs }

\* C24: logAuditEvent adds exactly one entry, at the end, and leaves the
\* earlier entries as they were; getAuditLogs(limit) leaves the stored log
\* as it was and returns the min(limit, n) most recent entries, newest
\* first; no accessor changes any of the other four tables
C24_AuditLogAppendOnly ==
    [][ LET before == documentStore.audit_logs
            after == documentStore'.audit_logs
            ret == result'.ret
        IN  /\ call'.fn = "logAuditEvent" =>
                  /\ Len(after) = Len(before) + 1
                  /\ SubSeq(after, 1, Len(before)) = before
                  /\ after[Len(after)] = ret
            /\ call'.fn = "getAuditLogs" =>
                  /\ after = before
                  /\ Len(ret) = Min(call'.limit, Len(before))
                  /\ Entries(ret) \subseteq Entries(before)
                  /\ \A i, j \in DOMAIN ret : i < j => ret[i].timestamp >= ret[j].timestamp
                  /\ \A e \in Entries(before) \ Entries(ret) :
                        \A r \in Entries(ret) : e.timestamp <= r.timestamp
            /\ documentStore'.policies = documentStore.policies
            /\ documentStore'.sanction_lists = documentStore.sanction_lists
            /\ documentStore'.merchant_ratings = documentStore.merchant_ratings
            /\ documentStore'.customer_policies = documentStore.customer_policies ]_vars

\* C29: the false-positive count and the false-negative count of
\* calculateMetrics are both the number of transactions that are CRITICAL
\* and ALLOWED, so model_precision and model_recall are the same number
C29_PrecisionEqualsRecall ==
    result.done =>
        LET txs == call.transactions
            m == result.metrics
            CriticalAllowed == { i \in DOMAIN txs : /\ txs[i].riskLevel = "CRITICAL"
                                                    /\ txs[i].status = "ALLOWED" }
            Blocked == { i \in DOMAIN txs : txs[i].status = "BLOCKED" }
        IN  /\ falsePositives(txs) = Cardinality(CriticalAllowed)
            /\ falseNegatives(txs) = Cardinality(CriticalAllowed)
            /\ m.model_precision.n * m.model_recall.d = m.model_recall.n * m.model_precision.d
            /\ RateIs(m.model_recall, Cardinality(Blocked),
                      Cardinality(Blocked) + Cardinality(CriticalAllowed))
            /\ RateIs(m.false_negative_rate, Cardinality(CriticalAllowed),
                      Cardinality(Blocked) + Cardinality(CriticalAllowed))

\* a list with a MEDIUM transaction allowed, a CRITICAL one allowed and a
\* blocked one: precision and recall are both 1/2
C29_Witness ==
    /\ result.done
    /\ \E i \in DOMAIN call.transactions :
          /\ call.transactions[i].riskLevel = "MEDIUM"
          /\ call.transactions[i].status = "ALLOWED"
    /\ \E i \in DOMAIN call.transactions :
          /\ call.transactions[i].riskLevel = "CRITICAL"
          /\ call.transactions[i].status = "ALLOWED"
    /\ result.metrics.model_recall = [n |-> 1, d |-> 2]
    /\ result.metrics.model_precision = result.metrics.model_recall

\* C30: one call of generateAlerts returns at most 6 alerts, at most 3 of
\* them CRITICAL; handed on to calculateMetrics they are too few to decide
\* system_health: the health is the one the rates and the latency give with
\* no alerts at all
C30_AlertCountsNeverDecideHealth ==
    result.done =>
        /\ Len(result.alerts) <= 6
        /\ CountSeverity(result.alerts, "CRITICAL") <= 3
        /\ calculateMetrics(call.transactions, << >>, result.alerts).system_health
              = calculateMetrics(call.transactions, << >>, << >>).system_health
        /\ \A d \in HealthRates, f \in HealthRates, t \in HealthLatencies :
              determineSystemHealth(d, f, t, result.alerts)
                 = determineSystemHealth(d, f, t, << >>)

\* all six rules fired, three of them with severity CRITICAL
C30_Witness ==
    /\ result.done
    /\ Len(result.alerts) = 6
    /\ CountSeverity(result.alerts, "CRITICAL") = 3
    /\ CountSeverity(result.alerts, "WARNING") = 3

\* the metrics m are calculateMetrics of the list txs and the log
CountsAreOf(m, txs, log) ==
    /\ m.transactions_today = Len(txs)
    /\ m.fraud_detected
          = Cardinality({ i \in DOMAIN txs :
                            txs[i].riskLevel = "CRITICAL" \/ txs[i].status = "BLOCKED" })
    /\ m = calculateMetrics(txs, log, m.active_alerts)

\* the three metric alerts in the list are the ones the metrics rated call for
MetricAlertsFollow(alerts, rated) ==
    /\ AlertsTitled(alerts, "Elevated Fraud Detection Rate") # {}
          <=> FracGt(rated.detection_rate, 1, 10)
    /\ AlertsTitled(alerts, "High False Positive Rate") # {}
          <=> FracGt(rated.false_positive_rate, 1, 5)
    /\ AlertsTitled(alerts, "System Performance Degradation") # {}
          <=> rated.avg_response_time_ms > 3000

\* C26, as claimed: after every change of the transaction list the published
\* counts are those of the current list and log, and a detection-rate,
\* false-positive or performance alert is in active_alerts iff the metrics
\* published together with it exceed the threshold
C26_AlertsFollowCurrentMetrics ==
    [][lastOp' \in { "tick", "inject", "updateStatus" } =>
          /\ CountsAreOf(result'.dashboardMetrics, transactions', metricsHistoryRef')
          /\ MetricAlertsFollow(result'.dashboardMetrics.active_alerts,
                                result'.dashboardMetrics)]_vars

\* C26, amended: after every change of the transaction list the published
\* counts are those of the current list and log, and a detection-rate,
\* false-positive or performance alert is in active_alerts iff the metrics
\* published before the change, the prior metrics, exceed the threshold
C26_AlertsFollowPriorMetrics ==
    [][lastOp' \in { "tick", "inject", "updateStatus" } =>
          /\ CountsAreOf(result'.dashboardMetrics, transactions', metricsHistoryRef')
          /\ MetricAlertsFollow(result'.dashboardMetrics.active_alerts,
                                result.dashboardMetrics)]_vars

\* the false-positive rate on the dashboard is back at 0 after the analyst
\* blocked the transaction allowed before, and the alert raised by the rate
\* published before is shown with it
C26_Witness ==
    /\ lastOp = "updateStatus"
    /\ result.dashboardMetrics.false_positive_rate = [n |-> 0, d |-> 1]
    /\ AlertsTitled(result.dashboardMetrics.active_alerts,
                    "High False Positive Rate") # {}

====
